---- MODULE Spec2Model ----
(***************************************************************************)
(* A model of trussworks/sesh.                                             *)
(*                                                                         *)
(* Part I  : session.Service on top of dbstore.DBStore (the sessions table *)
(*           of migrations/create_sessions_table.sql) and the seshttp      *)
(*           SessionMiddleware in front of it.  Concurrent callers         *)
(*           interleave at the granularity of single SQL statements.       *)
(* Part II : sesh.UserSessions on top of an scs.SessionManager, with the   *)
(*           user table of pkg/dummy carrying the current-session pointer. *)
(***************************************************************************)
EXTENDS Integers, Sequences, FiniteSets, TLC

(***************************************************************************)
(* Bounds of the model.                                                    *)
(***************************************************************************)
\* number of session keys generateSessionKey hands out in one behaviour
MaxKeys == 2
\* last instant of the discrete clock
MaxTime == 2
\* number of session tokens scs generates in one behaviour
MaxTokens == 3

\* concurrent callers of the Service (request-handling goroutines)
Procs == {"p1", "p2"}
\* account identifiers handed to UserDidAuthenticate; "" is the empty subject
Accounts == {"", "acct"}
\* timeouts a Service is configured with (tests use 5s and -5s)
Timeouts == {-1, 2}
\* the two session managers of the repository; an application is built on one
Impls == {"Service", "UserSessions"}
\* browsers (cookie jars) talking to the pkg/dummy application
Browsers == {"b1", "b2"}
\* ids of the rows of the application's users table; "" is the empty id
UserIDs == {"", "u"}

VARIABLES
  sessions,       \* the rows of table sessions
  now,            \* time.Now().UTC()
  timeout,        \* Service.timeout
  nextKey,        \* number of session keys generated so far, plus one
  pc,             \* per caller: the statement its call is at
  acct,           \* per caller: accountID argument of UserDidAuthenticate
  sessionKey,     \* per caller: sessionKey local / argument / cookie value
  extantSession,  \* per caller: the row FetchPossiblyExpiredSession returned
  events,         \* per caller: log lines its call in progress has emitted
  ret,            \* the call that returned in the last step, and what it returned
  issued,         \* history: <<key, account>> of every successful login, in order
  loggedOut,      \* history: keys for which UserDidLogout returned nil
  logCount,       \* history: per message, the lines the Service's logins have logged
  lastSeen,       \* history: per key, when it was issued or last validated (-1: never)
  rejected,       \* history: issued keys GetSessionIfValid has answered expired or not found
  impl,           \* which session manager the application is built on
  scsStore,       \* the scs.Store: entries token -> (values, deadline)
  users,          \* users.current_session_id, per user id
  cookie,         \* per browser: the session cookie it holds
  nextToken,      \* number of scs tokens generated so far, plus one
  deleteFails     \* the scs.Store is a silentFailDeleteStore

svars == <<sessions, now, timeout, nextKey, pc, acct, sessionKey,
           extantSession, events, ret, issued, loggedOut, logCount, lastSeen, rejected>>

\* what the Service never touches
scsVars == <<impl, scsStore, users, cookie, nextToken, deleteFails>>
\* what UserSessions never touches
serviceVars == <<sessions, timeout, nextKey, pc, acct, sessionKey, extantSession, events,
                 logCount, lastSeen, rejected>>

vars == <<svars, scsVars>>

(***************************************************************************)
(* pkg/domain: errors, log messages, Session                               *)
(***************************************************************************)
ErrValidSessionNotFound == "Valid session not found"
ErrSessionExpired == "Session is expired"
\* database/sql.ErrNoRows
ErrNoRows == "sql: no rows in result set"
\* faulty variant: the error of a failed INSERT is dropped on the way up
ErrCreateFailed_Dropped == ""

\* the wrapped errors DBStore builds with fmt.Errorf
ErrCreateFailed == "Unexpectedly failed to create a session"

SessionExpired == "Auth failed because of an expired session"
SessionDoesNotExist == "Auth failed because of an invalid session"
SessionUnexpectedError == "An unexpected error occurred while checking the session."
RequestIsMissingSessionCookie == "Unauthorized: Request is missing a session cookie"
SessionCreated == "New Session Created"
SessionDestroyed == "Session Was Destroyed"
SessionConcurrentLogin == "User logged in again with a concurrent active session"
DeleteFailedWarning == "Unexpectedly failed to delete an expired session during authentication"

\* the zero value domain.Session{}
NoSession == [AccountID |-> "", SessionKey |-> "", ExpirationDate |-> 0]

Session(a, k, e) == [AccountID |-> a, SessionKey |-> k, ExpirationDate |-> e]

(***************************************************************************)
(* session.go helpers                                                      *)
(***************************************************************************)
\* the n-th key drawn from securecookie.GenerateRandomKey: fresh each time
generateSessionKey(n) == "k" \o ToString(n)

\* the session keys generateSessionKey can hand out within the bound
StoreKeys == {generateSessionKey(n) : n \in 1..MaxKeys}

\* faulty variant: the key is logged as it is
hashSessionKey_Raw(k) == k

\* first 12 hex characters of the SHA-512 digest: a different string, one per key
hashSessionKey(k) == "sha512/12:" \o k

\* a key no login ever returned
BogusKey == "forged"

\* faulty variant: the error is not put into the warning
WarnError_DropsError(msg, err, fields) == [level |-> "WARN", msg |-> msg, fields |-> fields]

Info(msg, fields) == [level |-> "INFO", msg |-> msg, fields |-> fields]
WarnError(msg, err, fields) == [level |-> "WARN", msg |-> msg, fields |-> fields \cup {<<"error", err>>}]

PreviousSessionExpiredMsg(e) == "Creating new Session: Previous session expired at " \o ToString(e)

(***************************************************************************)
(* dbstore.DBStore: one operator per SQL statement, over the table value   *)
(***************************************************************************)
RowsByKey(rows, k) == {r \in rows : r.SessionKey = k}
RowsByAccount(rows, a) == {r \in rows : r.AccountID = a}

\* faulty variant: the table lacks the PRIMARY KEY constraint on session_key
ConstraintsAllow_NoPrimaryKey(rows, a, k) == RowsByAccount(rows, a) = {}

\* faulty variant: the table lacks the UNIQUE constraint on account_id
ConstraintsAllow_NoUniqueAccount(rows, a, k) == RowsByKey(rows, k) = {}

\* session_key PRIMARY KEY, account_id UNIQUE
ConstraintsAllow(rows, a, k) == RowsByKey(rows, k) = {} /\ RowsByAccount(rows, a) = {}

\* faulty variant: the expiration is computed without adding the duration
CreateSession_NoDuration(rows, a, k, duration, t) ==
  IF RowsByKey(rows, k) = {} /\ RowsByAccount(rows, a) = {}
  THEN [rows |-> rows \cup {Session(a, k, t)}, err |-> ""]
  ELSE [rows |-> rows, err |-> "Unexpectedly failed to create a session"]

\* INSERT INTO sessions ... VALUES (key, account, now + duration)
CreateSession(rows, a, k, duration, t) ==
  IF ConstraintsAllow(rows, a, k)
  THEN [rows |-> rows \cup {Session(a, k, t + duration)}, err |-> ""]
  ELSE [rows |-> rows, err |-> ErrCreateFailed]

\* faulty variant: the SELECT lacks the condition on account_id
FetchPossiblyExpiredSession_AnyAccount(rows, a) ==
  IF rows = {}
  THEN [session |-> NoSession, err |-> "sql: no rows in result set"]
  ELSE [session |-> CHOOSE r \in rows : TRUE, err |-> ""]

\* SELECT * FROM sessions WHERE account_id = a
FetchPossiblyExpiredSession(rows, a) ==
  IF RowsByAccount(rows, a) = {}
  THEN [session |-> NoSession, err |-> ErrNoRows]
  ELSE [session |-> CHOOSE r \in RowsByAccount(rows, a) : TRUE, err |-> ""]

\* faulty variant: the DELETE matches no row, and RowsAffected is not looked at
DeleteSession_NoDelete(rows, k) == [rows |-> rows, err |-> ""]

\* faulty variant: zero rows affected is not reported
DeleteSession_IgnoreRowsAffected(rows, k) ==
  [rows |-> rows \ RowsByKey(rows, k), err |-> ""]

\* DELETE FROM sessions WHERE session_key = k; zero rows affected is an error
DeleteSession(rows, k) ==
  IF RowsByKey(rows, k) = {}
  THEN [rows |-> rows, err |-> ErrValidSessionNotFound]
  ELSE [rows |-> rows \ RowsByKey(rows, k), err |-> ""]

\* faulty variant: the UPDATE lacks the condition expiration_date > now
ExtendUpdate_IgnoreExpiry(rows, k, duration, t) ==
  LET hit == RowsByKey(rows, k)
      new == {Session(r.AccountID, r.SessionKey, t + duration) : r \in hit}
  IN  IF hit = {}
      THEN [rows |-> rows, session |-> NoSession, err |-> "sql: no rows in result set"]
      ELSE [rows |-> (rows \ hit) \cup new, session |-> CHOOSE r \in new : TRUE, err |-> ""]

\* faulty variant: the UPDATE sets expiration_date to now, without the duration
ExtendUpdate_NoDuration(rows, k, duration, t) ==
  LET hit == {r \in RowsByKey(rows, k) : r.ExpirationDate > t}
      new == {Session(r.AccountID, r.SessionKey, t) : r \in hit}
  IN  IF hit = {}
      THEN [rows |-> rows, session |-> NoSession, err |-> "sql: no rows in result set"]
      ELSE [rows |-> (rows \ hit) \cup new, session |-> CHOOSE r \in new : TRUE, err |-> ""]

\* faulty variant: the UPDATE returns the row without moving its expiration_date
ExtendUpdate_NoExtend(rows, k, duration, t) ==
  LET hit == {r \in RowsByKey(rows, k) : r.ExpirationDate > t}
  IN  IF hit = {}
      THEN [rows |-> rows, session |-> NoSession, err |-> "sql: no rows in result set"]
      ELSE [rows |-> rows, session |-> CHOOSE r \in hit : TRUE, err |-> ""]

\* faulty variant: an UPDATE that hits no row removes the key's expired row
ExtendUpdate_PurgesExpired(rows, k, duration, t) ==
  LET hit == {r \in RowsByKey(rows, k) : r.ExpirationDate > t}
      new == {Session(r.AccountID, r.SessionKey, t + duration) : r \in hit}
  IN  IF hit = {}
      THEN [rows |-> rows \ RowsByKey(rows, k), session |-> NoSession,
            err |-> "sql: no rows in result set"]
      ELSE [rows |-> (rows \ hit) \cup new, session |-> CHOOSE r \in new : TRUE, err |-> ""]

\* faulty variant: the UPDATE asks for expiration_date > now + 1
ExtendUpdate_MissesLastTick(rows, k, duration, t) ==
  LET hit == {r \in RowsByKey(rows, k) : r.ExpirationDate > t + 1}
      new == {Session(r.AccountID, r.SessionKey, t + duration) : r \in hit}
  IN  IF hit = {}
      THEN [rows |-> rows, session |-> NoSession, err |-> "sql: no rows in result set"]
      ELSE [rows |-> (rows \ hit) \cup new, session |-> CHOOSE r \in new : TRUE, err |-> ""]

\* UPDATE sessions SET expiration_date = now + duration
\*   WHERE session_key = k AND expiration_date > now RETURNING ...
ExtendUpdate(rows, k, duration, t) ==
  LET hit == {r \in RowsByKey(rows, k) : r.ExpirationDate > t}
      new == {Session(r.AccountID, r.SessionKey, t + duration) : r \in hit}
  IN  IF hit = {}
      THEN [rows |-> rows, session |-> NoSession, err |-> ErrNoRows]
      ELSE [rows |-> (rows \ hit) \cup new,
            session |-> CHOOSE r \in new : TRUE, err |-> ""]

\* faulty variant: the second SELECT's outcome is not looked at
ExistsLookup_AlwaysExpired(rows, k) == "Session is expired"

\* SELECT * FROM sessions WHERE session_key = k, after the UPDATE hit no row
ExistsLookup(rows, k) ==
  IF RowsByKey(rows, k) = {} THEN ErrValidSessionNotFound ELSE ErrSessionExpired

(***************************************************************************)
(* seshttp.SessionMiddleware: the response for GetSessionIfValid's error   *)
(***************************************************************************)
\* faulty variant: only an expired session is answered with 401
MiddlewareStatus_NotFoundIs500(err) ==
  IF err = "" THEN 200
  ELSE IF err = "Session is expired" THEN 401
  ELSE 500

MiddlewareStatus(err) ==
  IF err = "" THEN 200
  ELSE IF err \in {ErrValidSessionNotFound, ErrSessionExpired} THEN 401
  ELSE 500

\* net/http: http.StatusText(http.StatusInternalServerError), http.ErrNoCookie
StatusTextInternalServerError == "Internal Server Error"
ErrNoCookie == "http: named cookie not present"

\* RespondWithStructuredError: json.Marshal of structuredErrors, written by http.Error
StructuredErrorBody(message) == "{\"errors\":[{\"message\":\"" \o message \o "\"}]}\n"

\* faulty variant: an unexpected error is written to the client as it is
MiddlewareMessage_LeaksError(err) ==
  IF err = "Valid session not found" THEN "Auth failed because of an invalid session"
  ELSE IF err = "Session is expired" THEN "Auth failed because of an expired session"
  ELSE err

\* the message Middleware hands to RespondWithStructuredError for an error of
\* GetSessionIfValid
MiddlewareMessage(err) ==
  IF err = ErrValidSessionNotFound THEN SessionDoesNotExist
  ELSE IF err = ErrSessionExpired THEN SessionExpired
  ELSE StatusTextInternalServerError

\* the message Middleware logs with WarnError for an error of GetSessionIfValid
MiddlewareLogMessage(err) ==
  IF err = ErrValidSessionNotFound THEN SessionDoesNotExist
  ELSE IF err = ErrSessionExpired THEN SessionExpired
  ELSE SessionUnexpectedError

(***************************************************************************)
(* seshttp: the session cookie                                             *)
(***************************************************************************)
SessionCookieName == "sesh-session-key"

\* http.Cookie{}: MaxAge 0 and Expires 0 (the zero time) write no attribute
ZeroCookie ==
  [Name |-> "", Value |-> "", Path |-> "", MaxAge |-> 0, Expires |-> 0,
   Secure |-> FALSE, HttpOnly |-> FALSE]

\* faulty variant: the cookie is readable by scripts
sessionCookie_NotHttpOnly(k, secure) ==
  [Name |-> "sesh-session-key", Value |-> k, Path |-> "/", MaxAge |-> 0, Expires |-> 0,
   Secure |-> secure, HttpOnly |-> FALSE]

\* the cookie AddSessionKeyToResponse sets
sessionCookie(k, secure) ==
  [ZeroCookie EXCEPT !.Secure = secure, !.Name = SessionCookieName, !.Value = k,
                     !.HttpOnly = TRUE, !.Path = "/"]

\* the cookie DeleteSessionCookie sets
DeleteSessionCookie == [ZeroCookie EXCEPT !.Name = SessionCookieName, !.MaxAge = -1]

(***************************************************************************)
(* Results of calls                                                        *)
(***************************************************************************)
\* no call completed in the step leading to this state
NoRet == [op |-> "none", arg |-> "", key |-> "", err |-> "", session |-> NoSession,
          before |-> 0, status |-> 0, handler |-> FALSE, events |-> <<>>,
          body |-> "", prev |-> NoSession, user |-> "", failed |-> "",
          setCookie |-> ZeroCookie]

\* a call op(arg) returned (key, session, err) having logged evs; a "get" is
\* made through SessionMiddleware, whose response status is recorded together
\* with whether the wrapped handler ran; before is the expiration the row had
\* when a successful "get" found it; body is what Middleware wrote when it
\* rejected the request; prev is the row a login fetched before displacing it;
\* user is the id of the user of a UserSessions request; failed is the
\* statement of UserDidAuthenticate or UserDidLogout that returned an error;
\* setCookie is the cookie that the handler around a Service login or logout
\* (testLoginHandler, testLogoutHandler) set on the response after the call
Ret(op, arg, k, err, s, evs) ==
  [op |-> op, arg |-> arg, key |-> k, err |-> err, session |-> s, before |-> 0,
   status |-> IF op = "get" THEN MiddlewareStatus(err) ELSE 0,
   handler |-> op = "get" /\ err = "", events |-> evs,
   body |-> IF op = "get" /\ err # "" THEN StructuredErrorBody(MiddlewareMessage(err)) ELSE "",
   prev |-> NoSession, user |-> "", failed |-> "", setCookie |-> ZeroCookie]

\* the log lines with message msg among evs
Count(evs, msg) == Cardinality({i \in 1..Len(evs) : evs[i].msg = msg})
\* the messages whose lines are counted over the whole run
CountedMessages == {SessionCreated, SessionConcurrentLogin}

(***************************************************************************)
(* Initial state                                                           *)
(***************************************************************************)
ServiceInit ==
  /\ impl = "Service"
  /\ timeout \in Timeouts
  /\ deleteFails = FALSE

UserSessionsInit ==
  /\ impl = "UserSessions"
  /\ timeout = 0
  /\ deleteFails \in BOOLEAN

Init ==
  /\ ServiceInit \/ UserSessionsInit
  /\ sessions = {}
  /\ now = 0
  /\ nextKey = 1
  /\ pc = [p \in Procs |-> "idle"]
  /\ acct = [p \in Procs |-> ""]
  /\ sessionKey = [p \in Procs |-> ""]
  /\ extantSession = [p \in Procs |-> NoSession]
  /\ events = [p \in Procs |-> <<>>]
  /\ ret = NoRet
  /\ issued = <<>>
  /\ loggedOut = {}
  /\ logCount = [m \in CountedMessages |-> 0]
  /\ lastSeen = [k \in StoreKeys |-> -1]
  /\ rejected = {}
  /\ scsStore = {}
  /\ users = [u \in UserIDs |-> ""]
  /\ cookie = [b \in Browsers |-> ""]
  /\ nextToken = 1

\* caller p's call is over: its locals are gone
Return(p) ==
  /\ pc' = [pc EXCEPT ![p] = "idle"]
  /\ acct' = [acct EXCEPT ![p] = ""]
  /\ sessionKey' = [sessionKey EXCEPT ![p] = ""]
  /\ extantSession' = [extantSession EXCEPT ![p] = NoSession]
  /\ events' = [events EXCEPT ![p] = <<>>]

\* faulty variant: every extant session is taken for expired
ExpiredAtLogin_Always(s, t) == TRUE

(***************************************************************************)
(* Service.UserDidAuthenticate, one action per store statement             *)
(***************************************************************************)
\* whether UserDidAuthenticate takes the "expired" branch for a fetched row
ExpiredAtLogin(s, t) == s.ExpirationDate < t

\* faulty variant: sql.ErrNoRows is returned like any other error
FetchErrorEndsLogin_AlsoNoRows(err) == err # ""

\* fetchErr != nil && fetchErr != sql.ErrNoRows
FetchErrorEndsLogin(err) == err # "" /\ err # ErrNoRows

\* UserDidAuthenticate from generateSessionKey to the log line for the
\* fetched row, f being what FetchPossiblyExpiredSession returned
AuthFetched(p, a, f) ==
  /\ nextKey' = nextKey + 1
  /\ IF FetchErrorEndsLogin(f.err)
     THEN /\ ret' = [Ret("auth", a, "", f.err, NoSession, <<>>)
                        EXCEPT !.failed = "FetchPossiblyExpiredSession"]
          /\ UNCHANGED <<pc, acct, sessionKey, extantSession, events>>
     ELSE /\ extantSession' = [extantSession EXCEPT ![p] = f.session]
          /\ pc' = [pc EXCEPT ![p] = IF f.err = "" THEN "auth_delete" ELSE "auth_create"]
          /\ events' = [events EXCEPT ![p] =
               IF f.err # "" THEN <<>>
               ELSE IF ExpiredAtLogin(f.session, now)
               THEN <<Info(PreviousSessionExpiredMsg(f.session.ExpirationDate),
                           {<<"account_id", a>>})>>
               ELSE <<Info(SessionConcurrentLogin,
                           {<<"prev_session_hash", hashSessionKey(f.session.SessionKey)>>})>>]
          /\ sessionKey' = [sessionKey EXCEPT ![p] = generateSessionKey(nextKey)]
          /\ acct' = [acct EXCEPT ![p] = a]
          /\ ret' = NoRet
  /\ UNCHANGED <<sessions, now, timeout, logCount, lastSeen, rejected, issued, loggedOut>>
  /\ UNCHANGED scsVars

\* generateSessionKey, FetchPossiblyExpiredSession and the log line on a hit
AuthFetch(p, a) ==
  /\ impl = "Service"
  /\ pc[p] = "idle"
  /\ nextKey <= MaxKeys
  /\ AuthFetched(p, a, FetchPossiblyExpiredSession(sessions, a))

\* DeleteSession(extantSession.SessionKey); a failure is only logged
AuthDelete(p) ==
  /\ impl = "Service"
  /\ pc[p] = "auth_delete"
  /\ LET d == DeleteSession(sessions, extantSession[p].SessionKey)
     IN  /\ sessions' = d.rows
         /\ events' = [events EXCEPT ![p] =
              IF d.err = "" THEN @
              ELSE Append(@, WarnError(DeleteFailedWarning, d.err, {<<"account_id", acct[p]>>}))]
  /\ pc' = [pc EXCEPT ![p] = "auth_create"]
  /\ ret' = NoRet
  /\ UNCHANGED <<now, timeout, logCount, lastSeen, rejected, nextKey, acct, sessionKey, extantSession, issued, loggedOut>>
  /\ UNCHANGED scsVars

\* CreateSession, the session-created log line and the return
AuthCreate(p) ==
  /\ impl = "Service"
  /\ pc[p] = "auth_create"
  /\ LET c == CreateSession(sessions, acct[p], sessionKey[p], timeout, now)
     IN  /\ sessions' = c.rows
         /\ IF c.err # ""
            THEN /\ ret' = [Ret("auth", acct[p], "", c.err, NoSession, events[p])
                               EXCEPT !.prev = extantSession[p]]
                 /\ UNCHANGED issued
            ELSE /\ \E secure \in BOOLEAN :
                      ret' = [Ret("auth", acct[p], sessionKey[p], "", NoSession,
                                  Append(events[p],
                                         Info(SessionCreated,
                                              {<<"session_hash", hashSessionKey(sessionKey[p])>>})))
                                EXCEPT !.prev = extantSession[p],
                                       !.setCookie = sessionCookie(sessionKey[p], secure)]
                 /\ issued' = Append(issued, <<sessionKey[p], acct[p]>>)
  /\ logCount' = [m \in CountedMessages |-> logCount[m] + Count(ret'.events, m)]
  /\ lastSeen' = IF ret'.err = "" THEN [lastSeen EXCEPT ![sessionKey[p]] = now] ELSE lastSeen
  /\ UNCHANGED rejected
  /\ Return(p)
  /\ UNCHANGED <<now, timeout, nextKey, loggedOut>>
  /\ UNCHANGED scsVars

(***************************************************************************)
(* Service.GetSessionIfValid behind SessionMiddleware.Middleware           *)
(***************************************************************************)
\* the conditional UPDATE; on a hit the call returns the extended session
GetExtend(p, k) ==
  /\ impl = "Service"
  /\ pc[p] = "idle"
  /\ LET u == ExtendUpdate(sessions, k, timeout, now)
     IN  /\ sessions' = u.rows
         /\ IF u.err = ""
            THEN /\ ret' = [Ret("get", k, k, "", u.session, <<>>) EXCEPT
                               !.before = (CHOOSE r \in RowsByKey(sessions, k) : TRUE).ExpirationDate]
                 /\ UNCHANGED <<pc, sessionKey>>
            ELSE /\ ret' = NoRet
                 /\ pc' = [pc EXCEPT ![p] = "get_exists"]
                 /\ sessionKey' = [sessionKey EXCEPT ![p] = k]
  /\ lastSeen' = IF ExtendUpdate(sessions, k, timeout, now).err = ""
                  THEN [lastSeen EXCEPT ![k] = now] ELSE lastSeen
  /\ UNCHANGED rejected
  /\ UNCHANGED <<now, timeout, logCount, nextKey, acct, extantSession, events, issued, loggedOut>>
  /\ UNCHANGED scsVars

\* the second SELECT telling expired from absent, the log lines, the 401
GetExists(p) ==
  /\ impl = "Service"
  /\ pc[p] = "get_exists"
  /\ LET e == ExistsLookup(sessions, sessionKey[p])
         msg == IF e = ErrSessionExpired THEN SessionExpired ELSE SessionDoesNotExist
     IN  ret' = Ret("get", sessionKey[p], "", e, NoSession,
                    <<Info(msg, {<<"session_hash", hashSessionKey(sessionKey[p])>>}),
                      WarnError(msg, e, {})>>)
  /\ Return(p)
  /\ UNCHANGED <<sessions, now, timeout, logCount, lastSeen, nextKey, issued, loggedOut>>
  /\ rejected' = rejected \cup ({sessionKey[p]} \cap {issued[i][1] : i \in 1..Len(issued)})
  /\ UNCHANGED scsVars

\* a request without the session cookie: Middleware answers before any call
\* of GetSessionIfValid
NoCookieReq ==
  /\ impl = "Service"
  /\ ret' = [NoRet EXCEPT !.op = "nocookie", !.err = ErrNoCookie, !.status = 401,
                          !.body = StructuredErrorBody(RequestIsMissingSessionCookie),
                          !.events = <<WarnError(RequestIsMissingSessionCookie, ErrNoCookie, {})>>]
  /\ UNCHANGED <<now, issued, loggedOut>>
  /\ UNCHANGED serviceVars
  /\ UNCHANGED scsVars

(***************************************************************************)
(* Service.UserDidLogout                                                   *)
(***************************************************************************)
Logout(p, k) ==
  /\ impl = "Service"
  /\ pc[p] = "idle"
  /\ LET d == DeleteSession(sessions, k)
     IN  /\ sessions' = d.rows
         /\ ret' = [Ret("logout", k, "", d.err, NoSession,
                        IF d.err # "" THEN <<>>
                        ELSE <<Info(SessionDestroyed, {<<"session_hash", hashSessionKey(k)>>})>>)
                      EXCEPT !.setCookie = IF d.err # "" THEN ZeroCookie ELSE DeleteSessionCookie]
         /\ loggedOut' = IF d.err = "" THEN loggedOut \cup {k} ELSE loggedOut
  /\ UNCHANGED <<now, timeout, logCount, lastSeen, rejected, nextKey, pc, acct, sessionKey, extantSession, events, issued>>
  /\ UNCHANGED scsVars

(***************************************************************************)
(* Part II.  sesh.UserSessions (sesh.go) on an scs.SessionManager          *)
(***************************************************************************)
ErrNoSession == "this session is not authenticated"
ErrNotCurrentSession == "this session is not the current session"
ErrEmptySessionID == "a user with an empty id cannot login"

sessionCreatedMessage == "New User Session Created"
sessionDeletedMessage == "User Session Destroyed"
expiredLoginMessage == "Previous session expired"
concurrentLoginMessage == "User logged in with a concurrent active session"

\* LogSeshEvent(message, {"session_id_hash": hashSessionKey(id)})
SeshEvent(msg, id) ==
  [level |-> "INFO", msg |-> msg, fields |-> {<<"session_id_hash", hashSessionKey(id)>>}]

\* SessionManager.Lifetime of scs.New(), in clock ticks
Lifetime == 1

generateToken(n) == "t" \o ToString(n)

\* the values sesh keeps in an scs session: userIDKey and seshIDKey
NoValues == [userID |-> "", seshID |-> ""]
Entry(tok, values, deadline) ==
  [token |-> tok, userID |-> values.userID, seshID |-> values.seshID, deadline |-> deadline]
EntriesOf(store, tok) == {e \in store : e.token = tok}

\* Store.Find: an entry past its deadline is not found
StoreFind(store, tok, t) == \E e \in EntriesOf(store, tok) : t <= e.deadline

\* Store.Commit
StoreCommit(store, tok, values, deadline) ==
  (store \ EntriesOf(store, tok)) \cup {Entry(tok, values, deadline)}

\* Store.Delete; silentFailDeleteStore.Delete returns nil without deleting
StoreDelete(store, tok, fails) ==
  IF fails THEN store ELSE store \ EntriesOf(store, tok)

\* SessionManager.Load in LoadAndSave: the session of the cookie's token, or
\* a new one without a token when the store does not find it
Load(store, tok, t) ==
  IF tok # "" /\ StoreFind(store, tok, t)
  THEN LET e == CHOOSE e \in EntriesOf(store, tok) : TRUE
       IN  [token |-> tok, values |-> [userID |-> e.userID, seshID |-> e.seshID],
            deadline |-> e.deadline]
  ELSE [token |-> "", values |-> NoValues, deadline |-> t + Lifetime]

\* faulty variant: the middleware accepts any session that carries a user id
ProtectedMiddleware_NoCurrentCheck(store, ptr, tok, t) ==
  LET sd == Load(store, tok, t)
  IN  IF sd.values.userID = "" THEN "this session is not authenticated" ELSE ""

\* UserSessions.ProtectedMiddleware: the error handed to the error handler,
\* "" when the wrapped handler is called
ProtectedMiddleware(store, ptr, tok, t) ==
  LET sd == Load(store, tok, t)
  IN  IF sd.values.userID = "" THEN ErrNoSession
      ELSE IF ptr[sd.values.userID] # sd.values.seshID THEN ErrNotCurrentSession
      ELSE ""

\* faulty variant: every rejection is answered as unauthorized
ErrorHandlerStatus_Always401(err) == 401

\* defaultErrorHandler.ServeHTTP
ErrorHandlerStatus(err) ==
  IF err \in {ErrNoSession, ErrNotCurrentSession} THEN 401 ELSE 500

\* faulty variant: the user id is not looked at
EmptyID_NotChecked(userID) == FALSE

\* UserDidAuthenticate's guard: userID == ""
EmptyID(userID) == userID = ""

\* faulty variant: the delegate reports success without writing
UpdateUser_Noop(ptr, userID, currentSessionID) == ptr

\* appUserDelegate.UpdateUser: UPDATE users SET current_session_id WHERE id
UpdateUser(ptr, userID, currentSessionID) == [ptr EXCEPT ![userID] = currentSessionID]

\* faulty variant: the logout leaves the user's current session id as it is
PointerAfterLogout_Kept(currentSessionID) == currentSessionID

\* the currentSessionID UserDidLogout hands to UpdateUser
PointerAfterLogout(currentSessionID) == ""

\* an HTTP request op carrying cookie tok was answered; ran tells whether the
\* handler wrapped by ProtectedMiddleware was called
HttpRet(op, tok, k, err, status, ran, evs) ==
  [op |-> op, arg |-> tok, key |-> k, err |-> err, session |-> NoSession,
   before |-> 0, status |-> status, handler |-> ran, events |-> evs,
   body |-> "", prev |-> NoSession, user |-> "", failed |-> "", setCookie |-> ZeroCookie]

\* POST /login by browser b for the user with id u: loginEndpoint calling
\* UserDidAuthenticate inside LoadAndSave
LoginReq(b, u) ==
  /\ impl = "UserSessions"
  /\ nextToken <= MaxTokens
  /\ IF EmptyID(u)
     THEN /\ ret' = [HttpRet("http_login", cookie[b], "", ErrEmptySessionID, 500, FALSE, <<>>)
                       EXCEPT !.user = u]
          /\ UNCHANGED <<scsStore, users, cookie, nextToken, issued>>
     ELSE LET sd == Load(scsStore, cookie[b], now)
              \* RenewToken
              renewed == StoreDelete(scsStore, sd.token, deleteFails)
              sessionID == generateToken(nextToken)
              deadline == now + Lifetime
              \* Put(userIDKey), Commit
              committed == StoreCommit(renewed, sessionID,
                                       [sd.values EXCEPT !.userID = u], deadline)
              \* user.SeshCurrentSessionID(), Store.Find, Store.Delete
              prev == users[u]
              exists == StoreFind(committed, prev, now)
              cleaned == IF prev # "" /\ exists
                         THEN StoreDelete(committed, prev, deleteFails)
                         ELSE committed
              evs == (IF prev = "" THEN <<>>
                      ELSE IF exists THEN <<SeshEvent(concurrentLoginMessage, prev)>>
                      ELSE <<SeshEvent(expiredLoginMessage, prev)>>)
                     \o <<SeshEvent(sessionCreatedMessage, sessionID)>>
          IN  \* Put(seshIDKey) is saved by LoadAndSave, which sets the cookie
              /\ scsStore' = StoreCommit(cleaned, sessionID,
                                         [userID |-> u, seshID |-> sessionID], deadline)
              /\ users' = UpdateUser(users, u, sessionID)
              /\ cookie' = [cookie EXCEPT ![b] = sessionID]
              /\ nextToken' = nextToken + 1
              /\ issued' = Append(issued, <<sessionID, u>>)
              /\ ret' = [HttpRet("http_login", cookie[b], sessionID, "", 201, FALSE, evs)
                           EXCEPT !.user = u]
  /\ UNCHANGED <<now, loggedOut, impl, deleteFails>>
  /\ UNCHANGED serviceVars

\* GET /protected with cookie tok: ProtectedMiddleware in front of protectedEndpoint
ProtectedReq(tok) ==
  /\ impl = "UserSessions"
  /\ LET err == ProtectedMiddleware(scsStore, users, tok, now)
     IN  ret' = HttpRet("http_protected", tok, "", err,
                        IF err = "" THEN 200 ELSE ErrorHandlerStatus(err), err = "", <<>>)
  /\ UNCHANGED <<now, issued, loggedOut>>
  /\ UNCHANGED serviceVars
  /\ UNCHANGED scsVars

\* POST /logout by browser b: ProtectedMiddleware in front of logoutEndpoint
\* calling UserDidLogout, inside LoadAndSave
LogoutReq(b) ==
  /\ impl = "UserSessions"
  /\ nextToken <= MaxTokens
  /\ LET tok == cookie[b]
         err == ProtectedMiddleware(scsStore, users, tok, now)
         sd == Load(scsStore, tok, now)
         \* RenewToken
         renewed == StoreDelete(scsStore, sd.token, deleteFails)
         newToken == generateToken(nextToken)
         \* Remove(userIDKey), PopString(seshIDKey)
         currentSessionID == sd.values.seshID
     IN  IF err # ""
         THEN /\ ret' = [HttpRet("http_logout", tok, "", err, ErrorHandlerStatus(err), FALSE, <<>>)
                           EXCEPT !.user = sd.values.userID]
              /\ UNCHANGED <<scsStore, users, cookie, nextToken, loggedOut>>
         ELSE /\ scsStore' = StoreCommit(renewed, newToken, NoValues, now + Lifetime)
              /\ users' = UpdateUser(users, sd.values.userID,
                                      PointerAfterLogout(currentSessionID))
              /\ cookie' = [cookie EXCEPT ![b] = newToken]
              /\ nextToken' = nextToken + 1
              /\ loggedOut' = loggedOut \cup {tok}
              /\ ret' = [HttpRet("http_logout", tok, newToken, "", 204, TRUE,
                                 <<SeshEvent(sessionDeletedMessage, currentSessionID)>>)
                           EXCEPT !.user = sd.values.userID]
  /\ UNCHANGED <<now, issued, impl, deleteFails>>
  /\ UNCHANGED serviceVars

\* cookies a client can send: every token scs generated, a forged one, none
PresentableTokens ==
  {generateToken(n) : n \in 1..(nextToken - 1)} \cup {BogusKey, ""}

(***************************************************************************)
(* The clock                                                               *)
(***************************************************************************)
Tick ==
  /\ now < MaxTime
  /\ now' = now + 1
  /\ ret' = NoRet
  /\ UNCHANGED <<issued, loggedOut>>
  /\ UNCHANGED serviceVars
  /\ UNCHANGED scsVars

\* keys a client can present: every key a login returned, and a forged one
PresentableKeys == {issued[i][1] : i \in 1..Len(issued)} \cup {BogusKey}

Next ==
  \/ \E p \in Procs, a \in Accounts : AuthFetch(p, a)
  \/ \E p \in Procs : AuthDelete(p)
  \/ \E p \in Procs : AuthCreate(p)
  \/ \E p \in Procs, k \in PresentableKeys : GetExtend(p, k)
  \/ \E p \in Procs : GetExists(p)
  \/ NoCookieReq
  \/ \E p \in Procs, k \in PresentableKeys : Logout(p, k)
  \/ \E b \in Browsers, u \in UserIDs : LoginReq(b, u)
  \/ \E tok \in PresentableTokens : ProtectedReq(tok)
  \/ \E b \in Browsers : LogoutReq(b)
  \/ Tick

Spec == Init /\ [][Next]_vars

(***************************************************************************)
(* Part III.  The same system on a database whose statements can fail      *)
(***************************************************************************)
\* the error of a failing database statement, and fmt.Errorf("...: %w", err)
ErrDB == "driver: bad connection"
Wrap(msg, err) == msg \o ": " \o err
ErrDeleteFailed == Wrap("Failed to delete session", ErrDB)
ErrFetchFailed == Wrap("Failed to fetch a session row", ErrDB)
ErrInsertFailed == Wrap(ErrCreateFailed, ErrDB)
ErrExtendFailed == Wrap("Unexpected error looking for valid session", ErrDB)
ErrExistsFailed == Wrap("Unexpected error fetching single invalid session", ErrDB)

\* what Middleware does with an error of GetSessionIfValid that is neither
\* ErrValidSessionNotFound nor ErrSessionExpired
UnexpectedGetRet(k, err) ==
  Ret("get", k, "", err, NoSession, <<WarnError(MiddlewareLogMessage(err), err, {})>>)

\* DeleteSession fails inside UserDidAuthenticate: the row stays, the failure
\* is logged, CreateSession is attempted all the same
AuthDeleteFault(p) ==
  /\ impl = "Service"
  /\ pc[p] = "auth_delete"
  /\ events' = [events EXCEPT ![p] =
        Append(@, WarnError(DeleteFailedWarning, ErrDeleteFailed, {<<"account_id", acct[p]>>}))]
  /\ pc' = [pc EXCEPT ![p] = "auth_create"]
  /\ ret' = NoRet
  /\ UNCHANGED <<sessions, now, timeout, logCount, lastSeen, rejected, nextKey, acct, sessionKey, extantSession,
                 issued, loggedOut>>
  /\ UNCHANGED scsVars

\* the SELECT of FetchPossiblyExpiredSession fails inside UserDidAuthenticate
AuthFetchFault(p, a) ==
  /\ impl = "Service"
  /\ pc[p] = "idle"
  /\ nextKey <= MaxKeys
  /\ AuthFetched(p, a, [session |-> NoSession, err |-> ErrFetchFailed])

\* the INSERT of CreateSession fails inside UserDidAuthenticate: no row is
\* written, the wrapped error is returned without a key, nothing more is logged
AuthCreateFault(p) ==
  /\ impl = "Service"
  /\ pc[p] = "auth_create"
  /\ ret' = [Ret("auth", acct[p], "", ErrInsertFailed, NoSession, events[p])
                EXCEPT !.prev = extantSession[p], !.failed = "CreateSession"]
  /\ logCount' = [m \in CountedMessages |-> logCount[m] + Count(ret'.events, m)]
  /\ Return(p)
  /\ UNCHANGED <<sessions, now, timeout, lastSeen, rejected, nextKey, issued, loggedOut>>
  /\ UNCHANGED scsVars

\* the UPDATE of ExtendAndFetchSession fails
GetExtendFault(p, k) ==
  /\ impl = "Service"
  /\ pc[p] = "idle"
  /\ ret' = UnexpectedGetRet(k, ErrExtendFailed)
  /\ UNCHANGED <<now, issued, loggedOut>>
  /\ UNCHANGED serviceVars
  /\ UNCHANGED scsVars

\* the second SELECT of ExtendAndFetchSession fails
GetExistsFault(p) ==
  /\ impl = "Service"
  /\ pc[p] = "get_exists"
  /\ ret' = UnexpectedGetRet(sessionKey[p], ErrExistsFailed)
  /\ Return(p)
  /\ UNCHANGED <<sessions, now, timeout, logCount, lastSeen, rejected, nextKey, issued, loggedOut>>
  /\ UNCHANGED scsVars

\* the errors of a failing scs.Store.Commit and of a failing UpdateUser delegate
ErrStore == "store: commit failed"
ErrDelegate == "delegate: update failed"
CommitError == Wrap("Failed to write new user session to store", ErrStore)
FindError == Wrap("Error loading previous session", ErrStore)
DeleteError == Wrap("Error deleting a previous session on login", ErrStore)
LoginUpdateError == Wrap("Error in user update delegate", ErrDelegate)
LogoutUpdateError == Wrap("Failed to reset logged out user's session ID", ErrDelegate)
\* the statements of UserDidAuthenticate and UserDidLogout that fail
Faults == {"Commit", "UpdateUser"}
\* UserDidAuthenticate also calls Store.Find and Store.Delete on the previous
\* session: Find when the user's pointer is set, Delete when Find found it
LoginFaults == Faults \cup {"Find", "Delete"}
FaultReached(store, ptr, sd, u, sessionID, t, fails, fault) ==
  LET committed == StoreCommit(StoreDelete(store, sd.token, fails), sessionID,
                               [sd.values EXCEPT !.userID = u], t + Lifetime)
  IN  /\ fault = "Find" => ptr[u] # ""
      /\ fault = "Delete" => ptr[u] # "" /\ StoreFind(committed, ptr[u], t)

\* faulty variant: the pointer is moved although Find or Delete failed
UserDidAuthenticateFailing_IgnoresStoreError(store, ptr, sd, u, sessionID, t, fails, fault) ==
  LET renewed == StoreDelete(store, sd.token, fails)
      values == [sd.values EXCEPT !.userID = u]
      committed == StoreCommit(renewed, sessionID, values, t + Lifetime)
      prev == ptr[u]
      exists == StoreFind(committed, prev, t)
      cleaned == IF prev # "" /\ exists THEN StoreDelete(committed, prev, fails) ELSE committed
      evs == IF prev = "" THEN <<>>
             ELSE IF exists THEN <<SeshEvent(concurrentLoginMessage, prev)>>
             ELSE <<SeshEvent(expiredLoginMessage, prev)>>
  IN  IF fault = "Commit"
      THEN [store |-> renewed, ptr |-> ptr, values |-> values,
            err |-> Wrap("Failed to write new user session to store", "store: commit failed"),
            events |-> <<>>]
      ELSE IF fault \in {"Find", "Delete"}
      THEN [store |-> committed, ptr |-> UpdateUser(ptr, u, sessionID),
            values |-> [values EXCEPT !.seshID = sessionID],
            err |-> Wrap("Error loading previous session", "store: commit failed"),
            events |-> <<>>]
      ELSE [store |-> cleaned, ptr |-> ptr, values |-> [values EXCEPT !.seshID = sessionID],
            err |-> Wrap("Error in user update delegate", "delegate: update failed"),
            events |-> evs]

\* faulty variant: UpdateUser is called before Commit
UserDidAuthenticateFailing_PointerFirst(store, ptr, sd, u, sessionID, t, fails, fault) ==
  LET renewed == StoreDelete(store, sd.token, fails)
      values == [sd.values EXCEPT !.userID = u]
      committed == StoreCommit(renewed, sessionID, values, t + Lifetime)
      prev == ptr[u]
      exists == StoreFind(committed, prev, t)
      cleaned == IF prev # "" /\ exists THEN StoreDelete(committed, prev, fails) ELSE committed
      evs == IF prev = "" THEN <<>>
             ELSE IF exists THEN <<SeshEvent(concurrentLoginMessage, prev)>>
             ELSE <<SeshEvent(expiredLoginMessage, prev)>>
  IN  IF fault = "Commit"
      THEN [store |-> renewed, ptr |-> UpdateUser(ptr, u, sessionID), values |-> values,
            err |-> Wrap("Failed to write new user session to store", "store: commit failed"),
            events |-> <<>>]
      ELSE [store |-> cleaned, ptr |-> ptr, values |-> [values EXCEPT !.seshID = sessionID],
            err |-> Wrap("Error in user update delegate", "delegate: update failed"),
            events |-> evs]

\* UserDidAuthenticate up to the statement that fails: what it has done to
\* the store and the pointer, the values left in the session, what it logged
UserDidAuthenticateFailing(store, ptr, sd, u, sessionID, t, fails, fault) ==
  LET \* RenewToken, Put(userIDKey)
      renewed == StoreDelete(store, sd.token, fails)
      values == [sd.values EXCEPT !.userID = u]
      \* Commit, Put(seshIDKey), Store.Find, Store.Delete
      committed == StoreCommit(renewed, sessionID, values, t + Lifetime)
      prev == ptr[u]
      exists == StoreFind(committed, prev, t)
      cleaned == IF prev # "" /\ exists THEN StoreDelete(committed, prev, fails) ELSE committed
      evs == IF prev = "" THEN <<>>
             ELSE IF exists THEN <<SeshEvent(concurrentLoginMessage, prev)>>
             ELSE <<SeshEvent(expiredLoginMessage, prev)>>
  IN  IF fault = "Commit"
      THEN [store |-> renewed, ptr |-> ptr, values |-> values,
            err |-> CommitError, events |-> <<>>]
      ELSE IF fault = "Find"
      THEN [store |-> committed, ptr |-> ptr, values |-> [values EXCEPT !.seshID = sessionID],
            err |-> FindError, events |-> <<>>]
      ELSE IF fault = "Delete"
      THEN [store |-> committed, ptr |-> ptr, values |-> [values EXCEPT !.seshID = sessionID],
            err |-> DeleteError, events |-> evs]
      ELSE [store |-> cleaned, ptr |-> ptr, values |-> [values EXCEPT !.seshID = sessionID],
            err |-> LoginUpdateError, events |-> evs]

\* faulty variant: the session-destroyed event is logged before UpdateUser
UserDidLogoutFailing_LogsFirst(store, ptr, sd, newToken, t, fails, fault) ==
  LET renewed == StoreDelete(store, sd.token, fails)
  IN  IF fault = "Commit"
      THEN [store |-> renewed, ptr |-> ptr,
            err |-> Wrap("Failed to write new user session to store", "store: commit failed"),
            events |-> <<>>]
      ELSE [store |-> StoreCommit(renewed, newToken, NoValues, t + Lifetime), ptr |-> ptr,
            err |-> Wrap("Failed to reset logged out user's session ID", "delegate: update failed"),
            events |-> <<SeshEvent(sessionDeletedMessage, sd.values.seshID)>>]

\* UserDidLogout up to the statement that fails
UserDidLogoutFailing(store, ptr, sd, newToken, t, fails, fault) ==
  LET \* RenewToken, Remove(userIDKey), PopString(seshIDKey)
      renewed == StoreDelete(store, sd.token, fails)
  IN  IF fault = "Commit"
      THEN [store |-> renewed, ptr |-> ptr, err |-> CommitError, events |-> <<>>]
      ELSE [store |-> StoreCommit(renewed, newToken, NoValues, t + Lifetime), ptr |-> ptr,
            err |-> LogoutUpdateError, events |-> <<>>]

\* POST /login during which a statement of UserDidAuthenticate fails:
\* loginEndpoint answers 500; LoadAndSave still commits the modified session, and sets the cookie
\* when that commit succeeds (saved)
LoginReqFault(b, u, fault, saved) ==
  /\ impl = "UserSessions"
  /\ nextToken <= MaxTokens
  /\ ~ EmptyID(u)
  /\ LET sd == Load(scsStore, cookie[b], now)
         sessionID == generateToken(nextToken)
         r == UserDidAuthenticateFailing(scsStore, users, sd, u, sessionID, now,
                                         deleteFails, fault)
     IN  /\ FaultReached(scsStore, users, sd, u, sessionID, now, deleteFails, fault)
         /\ scsStore' = IF saved
                        THEN StoreCommit(r.store, sessionID, r.values, now + Lifetime)
                        ELSE r.store
         /\ users' = r.ptr
         /\ cookie' = IF saved THEN [cookie EXCEPT ![b] = sessionID] ELSE cookie
         /\ ret' = [HttpRet("http_login", cookie[b], sessionID, r.err, 500, FALSE, r.events)
                      EXCEPT !.user = u, !.failed = fault]
  /\ nextToken' = nextToken + 1
  /\ UNCHANGED <<now, issued, loggedOut, impl, deleteFails>>
  /\ UNCHANGED serviceVars

\* POST /logout that passes ProtectedMiddleware and during which Commit or
\* UpdateUser fails
LogoutReqFault(b, fault, saved) ==
  /\ impl = "UserSessions"
  /\ nextToken <= MaxTokens
  /\ ProtectedMiddleware(scsStore, users, cookie[b], now) = ""
  /\ LET sd == Load(scsStore, cookie[b], now)
         newToken == generateToken(nextToken)
         r == UserDidLogoutFailing(scsStore, users, sd, newToken, now, deleteFails, fault)
     IN  /\ scsStore' = IF saved
                        THEN StoreCommit(r.store, newToken, NoValues, now + Lifetime)
                        ELSE r.store
         /\ users' = r.ptr
         /\ cookie' = IF saved THEN [cookie EXCEPT ![b] = newToken] ELSE cookie
         /\ ret' = [HttpRet("http_logout", cookie[b], newToken, r.err, 500, TRUE, r.events)
                      EXCEPT !.user = sd.values.userID, !.failed = fault]
  /\ nextToken' = nextToken + 1
  /\ UNCHANGED <<now, issued, loggedOut, impl, deleteFails>>
  /\ UNCHANGED serviceVars

\* the error of a failing FetchUserByID delegate
ErrFetchUser == "Fetch Failure"

\* ProtectedMiddleware when FetchUserByID fails: the error handed to the
\* error handler
ProtectedMiddlewareFetchFailing(store, tok, t) ==
  LET sd == Load(store, tok, t)
  IN  IF sd.values.userID = "" THEN ErrNoSession ELSE ErrFetchUser

\* GET /protected with cookie tok of a session that holds a user id, while
\* FetchUserByID fails
ProtectedReqFault(tok) ==
  /\ impl = "UserSessions"
  /\ Load(scsStore, tok, now).values.userID # ""
  /\ LET err == ProtectedMiddlewareFetchFailing(scsStore, tok, now)
     IN  ret' = [HttpRet("http_protected", tok, "", err, ErrorHandlerStatus(err), FALSE, <<>>)
                   EXCEPT !.failed = "FetchUserByID"]
  /\ UNCHANGED <<now, issued, loggedOut>>
  /\ UNCHANGED serviceVars
  /\ UNCHANGED scsVars

FaultNext ==
  \/ Next
  \/ \E p \in Procs : AuthDeleteFault(p)
  \/ \E p \in Procs : AuthCreateFault(p)
  \/ \E p \in Procs, a \in Accounts : AuthFetchFault(p, a)
  \/ \E p \in Procs, k \in PresentableKeys : GetExtendFault(p, k)
  \/ \E p \in Procs : GetExistsFault(p)
  \/ \E b \in Browsers, u \in UserIDs, fault \in LoginFaults, saved \in BOOLEAN :
        LoginReqFault(b, u, fault, saved)
  \/ \E b \in Browsers, fault \in Faults, saved \in BOOLEAN : LogoutReqFault(b, fault, saved)
  \/ \E tok \in PresentableTokens : ProtectedReqFault(tok)

FaultSpec == Init /\ [][FaultNext]_vars

\* faulty variant: a previous session is displaced only when still valid
UserDidAuthenticateUninterrupted_KeepsExpired(rows, a, k, d, t) ==
  LET f == FetchPossiblyExpiredSession(rows, a)
      displaced == IF f.err = "" /\ ~ ExpiredAtLogin(f.session, t)
                   THEN DeleteSession(rows, f.session.SessionKey).rows
                   ELSE rows
      c == CreateSession(displaced, a, k, d, t)
  IN  [rows |-> c.rows, key |-> IF c.err = "" THEN k ELSE "", err |-> c.err]

\* Service.UserDidAuthenticate(a) run from start to end on a store that
\* answers every statement, with no other call in between: the table it
\* leaves and what it returns; k is the key it generated
UserDidAuthenticateUninterrupted(rows, a, k, d, t) ==
  LET f == FetchPossiblyExpiredSession(rows, a)
      displaced == IF f.err = ""
                   THEN DeleteSession(rows, f.session.SessionKey).rows
                   ELSE rows
      c == CreateSession(displaced, a, k, d, t)
  IN  [rows |-> c.rows, key |-> IF c.err = "" THEN k ELSE "", err |-> c.err]

(***************************************************************************)
(* Part IV.  dbstore.DBStore called directly, as session_test.go does      *)
(***************************************************************************)
StoreInit ==
  /\ impl = "DBStore"
  /\ timeout = 0
  /\ deleteFails = FALSE
  /\ sessions = {}
  /\ now = 0
  /\ nextKey = 1
  /\ pc = [p \in Procs |-> "idle"]
  /\ acct = [p \in Procs |-> ""]
  /\ sessionKey = [p \in Procs |-> ""]
  /\ extantSession = [p \in Procs |-> NoSession]
  /\ events = [p \in Procs |-> <<>>]
  /\ ret = NoRet
  /\ issued = <<>>
  /\ loggedOut = {}
  /\ logCount = [m \in CountedMessages |-> 0]
  /\ lastSeen = [k \in StoreKeys |-> -1]
  /\ rejected = {}
  /\ scsStore = {}
  /\ users = [u \in UserIDs |-> ""]
  /\ cookie = [b \in Browsers |-> ""]
  /\ nextToken = 1

\* DBStore.CreateSession(a, k, d); before records the duration
StoreCreateSession(a, k, d) ==
  /\ impl = "DBStore"
  /\ LET c == CreateSession(sessions, a, k, d, now)
     IN  /\ sessions' = c.rows
         /\ ret' = [Ret("create", a, k, c.err, NoSession, <<>>) EXCEPT !.before = d]
  /\ UNCHANGED <<now, timeout, nextKey, pc, acct, sessionKey, extantSession, events,
                 issued, loggedOut, logCount, lastSeen, rejected>>
  /\ UNCHANGED scsVars

\* DBStore.DeleteSession(k)
StoreDeleteSession(k) ==
  /\ impl = "DBStore"
  /\ LET d == DeleteSession(sessions, k)
     IN  /\ sessions' = d.rows
         /\ ret' = Ret("delete", k, "", d.err, NoSession, <<>>)
  /\ UNCHANGED <<now, timeout, nextKey, pc, acct, sessionKey, extantSession, events,
                 issued, loggedOut, logCount, lastSeen, rejected>>
  /\ UNCHANGED scsVars

StoreNext ==
  \/ \E a \in Accounts, k \in StoreKeys, d \in Timeouts : StoreCreateSession(a, k, d)
  \/ \E k \in StoreKeys : StoreDeleteSession(k)
  \/ Tick

StoreSpec == StoreInit /\ [][StoreNext]_vars

(***************************************************************************)
(* Part V.  UserDidLogout behind LoadAndSave but not behind                *)
(* ProtectedMiddleware: the context carries no user                        *)
(***************************************************************************)
ErrNoUserInContext ==
  "the User was not in the context, it should have been put there by the protected middleware"

\* faulty variant: the pointer is reset from the session's user id
UserDidLogoutWithoutUser_ResetsPointer(store, ptr, sd, newToken, t, fails) ==
  [store |-> StoreCommit(StoreDelete(store, sd.token, fails), newToken, NoValues, t + Lifetime),
   ptr |-> UpdateUser(ptr, sd.values.userID, ""),
   err |-> "the User was not in the context, it should have been put there by the protected middleware",
   events |-> <<>>]

\* UserDidLogout up to the failed type assertion on ctx.Value(userContextKey):
\* RenewToken, Remove(userIDKey), PopString(seshIDKey) and Commit have run
UserDidLogoutWithoutUser(store, ptr, sd, newToken, t, fails) ==
  [store |-> StoreCommit(StoreDelete(store, sd.token, fails), newToken, NoValues, t + Lifetime),
   ptr |-> ptr,
   err |-> ErrNoUserInContext,
   events |-> <<>>]

\* a request by browser b to a handler that calls UserDidLogout without
\* ProtectedMiddleware in front of it; LoadAndSave sets the new cookie
LogoutDirectReq(b) ==
  /\ impl = "UserSessions"
  /\ nextToken <= MaxTokens
  /\ LET sd == Load(scsStore, cookie[b], now)
         newToken == generateToken(nextToken)
         r == UserDidLogoutWithoutUser(scsStore, users, sd, newToken, now, deleteFails)
     IN  /\ scsStore' = r.store
         /\ users' = r.ptr
         /\ cookie' = [cookie EXCEPT ![b] = newToken]
         /\ ret' = [HttpRet("logout_direct", cookie[b], newToken, r.err, 500, TRUE, r.events)
                      EXCEPT !.user = sd.values.userID, !.prev = [NoSession EXCEPT
                                                                   !.SessionKey = sd.values.seshID]]
  /\ nextToken' = nextToken + 1
  /\ UNCHANGED <<now, issued, loggedOut, impl, deleteFails>>
  /\ UNCHANGED serviceVars

DirectNext ==
  \/ Next
  \/ \E b \in Browsers : LogoutDirectReq(b)

DirectSpec == Init /\ [][DirectNext]_vars

(***************************************************************************)
(* Vocabulary of the properties                                            *)
(***************************************************************************)
IssuedKeys == {issued[i][1] : i \in 1..Len(issued)}
IssueIndex(k) == CHOOSE i \in 1..Len(issued) : issued[i][1] = k
IssuedAccount(k) == issued[IssueIndex(k)][2]
\* a later login for the same account has returned since k was returned
Superseded(k) ==
  \E j \in 1..Len(issued) : j > IssueIndex(k) /\ issued[j][2] = IssuedAccount(k)
\* the n with k = generateSessionKey(n): the order in which calls started
KeyNumber(k) == CHOOSE n \in 1..MaxKeys : generateSessionKey(n) = k
\* valid iff now < expirationDate
ValidSessions(a) == {r \in RowsByAccount(sessions, a) : r.ExpirationDate > now}
Logged(evs, msg) == \E i \in 1..Len(evs) : evs[i].msg = msg
LoginReturned == ret.op = "auth" /\ ret.err = ""
LoginInProgress(a) == \E p \in Procs : pc[p] \in {"auth_delete", "auth_create"} /\ acct[p] = a

(***************************************************************************)
(* C1: when a successful UserDidAuthenticate(a) completes, the store holds *)
(* exactly one row for a; its key is the key just returned, which is the   *)
(* last entry of the login history; the row is valid if the configured     *)
(* timeout is positive; keys returned earlier for a have no row.           *)
(***************************************************************************)
C1_SingleSessionAfterLogin ==
  LoginReturned =>
    LET rows == RowsByAccount(sessions, ret.arg)
    IN  /\ Cardinality(rows) = 1
        /\ \A r \in rows : /\ r.SessionKey = ret.key
                           /\ timeout > 0 => r.ExpirationDate > now
        /\ issued[Len(issued)] = <<ret.key, ret.arg>>
        /\ \A i \in 1..(Len(issued) - 1) :
             issued[i][2] = ret.arg => RowsByKey(sessions, issued[i][1]) = {}

\* a second login for the same account returned, having displaced the first
C1_Witness ==
  /\ LoginReturned /\ timeout > 0
  /\ Len(issued) = 2 /\ issued[1][2] = issued[2][2]
  /\ Logged(ret.events, SessionConcurrentLogin)

(***************************************************************************)
(* C2 as stated: when UserDidAuthenticate returns a key, exactly one valid *)
(* session exists for the account and it carries the returned key.         *)
(***************************************************************************)
C2_ExactlyOneValidAtReturn ==
  LoginReturned =>
    /\ Cardinality(ValidSessions(ret.arg)) = 1
    /\ \A r \in ValidSessions(ret.arg) : r.SessionKey = ret.key

(***************************************************************************)
(* C2 amended: when UserDidAuthenticate returns a key, under any           *)
(* interleaving with other calls, the account has exactly one row and it   *)
(* carries the returned key; that row is a valid session exactly when the  *)
(* configured timeout is positive, and there is never a second valid one.  *)
(***************************************************************************)
C2_ExactlyOneRowAtReturn ==
  LoginReturned =>
    /\ \E r \in sessions : RowsByAccount(sessions, ret.arg) = {r} /\ r.SessionKey = ret.key
    /\ timeout > 0 => \E r \in sessions : ValidSessions(ret.arg) = {r} /\ r.SessionKey = ret.key
    /\ timeout <= 0 => ValidSessions(ret.arg) = {}

\* a login returns while another login for the same account is in flight
C2_Witness == LoginReturned /\ timeout > 0 /\ LoginInProgress(ret.arg)

(***************************************************************************)
(* C3 as stated: at most one row per account in every state, and of two    *)
(* overlapping logins for one account that both run CreateSession at most  *)
(* one succeeds.  (A returned key with a smaller number than one returned  *)
(* before it for the same account belongs to a call that started earlier   *)
(* and ended later: the two calls overlapped and both succeeded.)          *)
(***************************************************************************)
C3_AtMostOneRacingCreateSucceeds ==
  /\ \A a \in Accounts : Cardinality(RowsByAccount(sessions, a)) <= 1
  /\ LoginReturned =>
       ~ \E i \in 1..(Len(issued) - 1) :
            issued[i][2] = ret.arg /\ KeyNumber(issued[i][1]) > KeyNumber(ret.key)

(***************************************************************************)
(* C3 amended: at most one row per account (and per key) in every state;   *)
(* a CreateSession that runs while the account has a row fails: the call   *)
(* returns an error and no key and the row stays; hence two overlapping    *)
(* logins both succeed only if the row of the first was deleted before the *)
(* CreateSession of the second ran.                                        *)
(***************************************************************************)
C3_AtMostOneRowPerAccount ==
  /\ \A a \in Accounts : Cardinality(RowsByAccount(sessions, a)) <= 1
  /\ \A r1, r2 \in sessions : r1.SessionKey = r2.SessionKey => r1 = r2
  /\ (ret.op = "auth" /\ ret.err # "") =>
       /\ ret.key = ""
       /\ \E r \in RowsByAccount(sessions, ret.arg) : r.SessionKey \in IssuedKeys
  /\ LoginReturned =>
       \A i \in 1..(Len(issued) - 1) :
          issued[i][2] = ret.arg => RowsByKey(sessions, issued[i][1]) = {}

\* a login that had found no previous session loses the race at CreateSession
C3_Witness ==
  /\ ret.op = "auth" /\ ret.err = ErrCreateFailed /\ ret.events = <<>>
  /\ \E i \in 1..Len(issued) : issued[i][2] = ret.arg

(***************************************************************************)
(* C4: keys returned by logins are pairwise different; GetSessionIfValid   *)
(* on a key that a later login for the same account has superseded, or     *)
(* that was logged out, yields ErrValidSessionNotFound; a successful       *)
(* GetSessionIfValid(K) returns K's session with the account K was issued  *)
(* for; and for a key that is neither superseded nor logged out, with no   *)
(* login for its account in flight, it succeeds unless the row is expired. *)
(***************************************************************************)
C4_SupersededKeyNotFound ==
  /\ \A i, j \in 1..Len(issued) : i # j => issued[i][1] # issued[j][1]
  /\ (ret.op = "get" /\ ret.arg \in IssuedKeys) =>
       /\ Superseded(ret.arg) => ret.err = ErrValidSessionNotFound
       /\ ret.arg \in loggedOut => ret.err = ErrValidSessionNotFound
       /\ ret.err = "" => /\ ret.session.SessionKey = ret.arg
                          /\ ret.session.AccountID = IssuedAccount(ret.arg)
       /\ (/\ ~ Superseded(ret.arg) /\ ret.arg \notin loggedOut
           /\ ~ LoginInProgress(IssuedAccount(ret.arg)))
          => \/ ret.err = ""
             \/ /\ ret.err = ErrSessionExpired
                /\ \E r \in RowsByKey(sessions, ret.arg) : r.ExpirationDate <= now

(***************************************************************************)
(* C4 as stated, on its last point but one: GetSessionIfValid on the key   *)
(* K2 of the second and latest login of an account, not logged out, with   *)
(* no login for the account in flight, succeeds.                           *)
(***************************************************************************)
C4_LatestKeySucceeds ==
  (/\ ret.op = "get" /\ ret.arg \in IssuedKeys
   /\ \E i \in 1..Len(issued) : i < IssueIndex(ret.arg) /\ issued[i][2] = IssuedAccount(ret.arg)
   /\ ~ Superseded(ret.arg) /\ ret.arg \notin loggedOut
   /\ ~ LoginInProgress(IssuedAccount(ret.arg)))
  => ret.err = ""

\* the first of two keys of one account is looked up after the second was returned
C4_Witness ==
  /\ ret.op = "get" /\ ret.err = ErrValidSessionNotFound
  /\ Len(issued) = 2 /\ issued[1][2] = issued[2][2] /\ ret.arg = issued[1][1]
  /\ ret.arg \notin loggedOut

(***************************************************************************)
(* C5: in UserSessions, a protected request with the session of a login    *)
(* that a later login of the same user has superseded is answered by the   *)
(* error handler with ErrNoSession or ErrNotCurrentSession (401) and the   *)
(* wrapped handler is not called, whether or not the store's Delete        *)
(* removed the old session; a request with the session of the user's       *)
(* latest login, not logged out and within its lifetime, reaches the       *)
(* wrapped handler.                                                        *)
(***************************************************************************)
C5_SupersededSessionRejected ==
  (ret.op = "http_protected" /\ ret.arg \in IssuedKeys) =>
    /\ Superseded(ret.arg) =>
         /\ ~ ret.handler
         /\ ret.err \in {ErrNoSession, ErrNotCurrentSession}
         /\ ret.status = 401
    /\ (/\ ~ Superseded(ret.arg) /\ ret.arg \notin loggedOut
        /\ \A e \in EntriesOf(scsStore, ret.arg) : now <= e.deadline)
       => ret.handler /\ ret.err = "" /\ ret.status = 200

\* the first browser's session outlived a Delete that did nothing
C5_Witness ==
  /\ ret.op = "http_protected" /\ deleteFails
  /\ Len(issued) = 2 /\ issued[1][2] = issued[2][2]
  /\ cookie["b1"] = issued[1][1] /\ cookie["b2"] = issued[2][1]
  /\ ret.arg = cookie["b1"] /\ ret.err = ErrNotCurrentSession
  /\ StoreFind(scsStore, ret.arg, now)

(***************************************************************************)
(* C6: a protected request carrying the key or token of a session whose    *)
(* logout succeeded is answered 401 without running the wrapped handler,   *)
(* in both variants (store without I/O faults); a request reaches the      *)
(* wrapped handler only with a key or token that a login issued and that   *)
(* was not logged out, so only a new login gets a browser accepted again.  *)
(***************************************************************************)
C6_LoggedOutStaysRejected ==
  /\ (ret.op \in {"get", "http_protected"} /\ ret.arg \in loggedOut) =>
        ret.status = 401 /\ ~ ret.handler
  /\ (ret.op \in {"get", "http_protected"} /\ ret.handler) =>
        ret.arg \in IssuedKeys \ loggedOut
  /\ (ret.op = "http_logout" /\ ret.handler) => ret.arg \in IssuedKeys
  /\ (ret.op = "http_logout" /\ ~ ret.handler) => ret.status = 401

\* the logged-out session is still in a store whose Delete does nothing
C6_Witness ==
  /\ ret.op = "http_protected" /\ ret.arg \in loggedOut /\ deleteFails
  /\ StoreFind(scsStore, ret.arg, now)
  /\ ret.status = 401

(***************************************************************************)
(* C7: GetSessionIfValid on a key for which UserDidLogout has succeeded    *)
(* yields ErrValidSessionNotFound, never ErrSessionExpired, whatever ran   *)
(* in between and whether or not the session was expired when destroyed.   *)
(***************************************************************************)
C7_LogoutThenNotFound ==
  (ret.op = "get" /\ ret.arg \in loggedOut) => ret.err = ErrValidSessionNotFound

\* the session was already expired when it was destroyed
C7_Witness == ret.op = "get" /\ ret.arg \in loggedOut /\ timeout < 0

(***************************************************************************)
(* C8: GetSessionIfValid returns ErrSessionExpired exactly when a row with *)
(* the key exists and its expirationDate is not in the future, and         *)
(* ErrValidSessionNotFound exactly when no row with the key exists.        *)
(***************************************************************************)
C8_ExpiredVersusNotFound ==
  ret.op = "get" =>
    LET rows == RowsByKey(sessions, ret.arg)
    IN  /\ ret.err = ErrSessionExpired <=>
             (rows # {} /\ \A r \in rows : r.ExpirationDate <= now)
        /\ ret.err = ErrValidSessionNotFound <=> rows = {}

\* a session created with a negative timeout is looked up
C8_Witness == ret.op = "get" /\ ret.err = ErrSessionExpired /\ timeout < 0

(***************************************************************************)
(* C9: UserDidLogout on a key without a row returns                        *)
(* ErrValidSessionNotFound, logs nothing and leaves the store as it was,   *)
(* so a second logout of a key fails; session-destroyed is logged only by  *)
(* a logout whose delete removed the row.                                  *)
(***************************************************************************)
C9_LogoutOfAbsentKey ==
  [][ret'.op = "logout" =>
       LET k == ret'.arg
           had == RowsByKey(sessions, k) # {}
       IN  /\ ~ had => /\ ret'.err = ErrValidSessionNotFound
                       /\ ret'.events = <<>>
                       /\ sessions' = sessions
           /\ k \in loggedOut => ~ had
           /\ Logged(ret'.events, SessionDestroyed) =>
                /\ had /\ ret'.err = ""
                /\ sessions' = sessions \ RowsByKey(sessions, k)
                /\ RowsByKey(sessions', k) = {}]_vars

\* the second of two logouts of one key
C9_Witness ==
  ret.op = "logout" /\ ret.err = ErrValidSessionNotFound /\ ret.arg \in loggedOut

(***************************************************************************)
(* C10: a successful GetSessionIfValid(K) found the row valid, leaves its  *)
(* expirationDate at now + timeout, which is not less than it was and is   *)
(* greater unless the row was set at this very instant, and returns the    *)
(* row: key K, the account K was issued for, the new expirationDate.       *)
(***************************************************************************)
C10_SlidingExpiry ==
  (ret.op = "get" /\ ret.err = "") =>
    /\ RowsByKey(sessions, ret.arg) = {ret.session}
    /\ ret.session.ExpirationDate = now + timeout
    /\ ret.session.SessionKey = ret.arg
    /\ ret.session.AccountID = IssuedAccount(ret.arg)
    /\ ret.before > now
    /\ ret.before <= ret.session.ExpirationDate
    /\ ret.before # now + timeout => ret.before < ret.session.ExpirationDate

\* time has passed between the login and the validation
C10_Witness ==
  ret.op = "get" /\ ret.err = "" /\ ret.before < ret.session.ExpirationDate

(***************************************************************************)
(* C11: no step of the Service moves a row's expirationDate backward: a    *)
(* row that is still there after a step has an expirationDate not less     *)
(* than before (fixed timeout, clock that never goes back).                *)
(***************************************************************************)
C11_ExpirationNeverDecreases ==
  [][\A r \in sessions : \A r2 \in sessions' :
       r2.SessionKey = r.SessionKey => r2.ExpirationDate >= r.ExpirationDate]_vars

\* at the last instant a validation has moved a row's expiration one tick on
C11_Witness ==
  /\ ret.op = "get" /\ ret.err = "" /\ now = 2
  /\ ret.session.ExpirationDate = ret.before + 1

(***************************************************************************)
(* C12: SessionMiddleware calls the wrapped handler exactly when the       *)
(* request carries the cookie and GetSessionIfValid on its value           *)
(* succeeded, and the session put in the request context is the row that   *)
(* validation returned; a missing cookie, ErrValidSessionNotFound and      *)
(* ErrSessionExpired are answered 401, any other error 500 with the        *)
(* generic status text as the only message, and the handler is not run.    *)
(***************************************************************************)
C12_HandlerIffValidSession ==
  ret.op \in {"get", "nocookie"} =>
    /\ ret.handler <=> (ret.op = "get" /\ ret.err = "")
    /\ ret.handler =>
         /\ ret.status = 200
         /\ RowsByKey(sessions, ret.arg) = {ret.session}
         /\ ret.session.SessionKey = ret.arg
    /\ (ret.op = "nocookie" \/ ret.err \in {ErrValidSessionNotFound, ErrSessionExpired}) =>
         ret.status = 401 /\ ~ ret.handler
    /\ (ret.op = "get" /\ ret.err \notin {"", ErrValidSessionNotFound, ErrSessionExpired}) =>
         /\ ret.status = 500 /\ ~ ret.handler
         /\ ret.body = StructuredErrorBody(StatusTextInternalServerError)

\* the database failed while an expired or absent session was being told apart
C12_Witness == ret.op = "get" /\ ret.err = ErrExistsFailed /\ ret.status = 500

(***************************************************************************)
(* C13: the response SessionMiddleware writes when it rejects a request    *)
(* with 401 is the same whatever the cause: for an expired session and for *)
(* a session not found it is the response written for a missing cookie.    *)
(***************************************************************************)
C13_RejectionsLookIdentical ==
  (ret.op \in {"get", "nocookie"} /\ ret.status = 401) =>
     ret.body = StructuredErrorBody(RequestIsMissingSessionCookie)

(***************************************************************************)
(* C14 as stated: a UserDidAuthenticate whose delete of the previous       *)
(* session failed still returns a new session key.                         *)
(***************************************************************************)
DeleteFailedAtLogin == ret.op = "auth" /\ Logged(ret.events, DeleteFailedWarning)

C14_DeleteFailureNeverFailsLogin ==
  DeleteFailedAtLogin => ret.err = "" /\ ret.key # ""

(***************************************************************************)
(* C14 amended: a failed delete of the previous session does not end       *)
(* UserDidAuthenticate: it is logged as a warning carrying the error and   *)
(* the account id, and CreateSession is attempted; the call returns a new  *)
(* key when that creation succeeds; when it fails, its error and no key    *)
(* are returned, and unless the INSERT itself met a database error a row   *)
(* of the account (the one that could not be deleted, or one that a racing *)
(* login created) is in the store.                                         *)
(***************************************************************************)
C14_DeleteFailureOnlyLogged ==
  /\ (ret.op = "auth" /\ ret.err # "") =>
       ret.err \in {ErrCreateFailed, ErrInsertFailed, ErrFetchFailed}
  /\ DeleteFailedAtLogin =>
       /\ \E i \in 1..Len(ret.events) :
            /\ ret.events[i].level = "WARN" /\ ret.events[i].msg = DeleteFailedWarning
            /\ <<"account_id", ret.arg>> \in ret.events[i].fields
            /\ \E e \in {ErrDeleteFailed, ErrValidSessionNotFound} :
                 <<"error", e>> \in ret.events[i].fields
       /\ ret.err = "" =>
            \E r \in sessions : RowsByAccount(sessions, ret.arg) = {r} /\ r.SessionKey = ret.key
       /\ ret.err # "" =>
            /\ ret.key = ""
            /\ ret.err = ErrCreateFailed => RowsByAccount(sessions, ret.arg) # {}

\* the delete failed and the login returned a key all the same
C14_Witness == DeleteFailedAtLogin /\ ret.err = "" /\ ret.key # ""

(***************************************************************************)
(* C15: Service.UserDidAuthenticate with an empty accountID returns an     *)
(* error and no key, logs nothing, and no row is ever stored for the empty *)
(* account.                                                                *)
(***************************************************************************)
C15_EmptyAccountRejected ==
  /\ (ret.op = "auth" /\ ret.arg = "") =>
        ret.err # "" /\ ret.key = "" /\ ret.events = <<>>
  /\ RowsByAccount(sessions, "") = {}

(***************************************************************************)
(* C16: a login of a user whose SeshUserID() is empty returns              *)
(* ErrEmptySessionID and does nothing else: the session token is not       *)
(* renewed, nothing is written to the store, the cookie is not set, the    *)
(* user's pointer is not updated and no event is logged.                   *)
(***************************************************************************)
C16_EmptyUserIDHasNoEffect ==
  [][(ret'.op = "http_login" /\ ret'.user = "") =>
        /\ ret'.err = ErrEmptySessionID
        /\ ret'.events = <<>>
        /\ UNCHANGED <<scsStore, users, cookie, nextToken, issued>>]_vars

\* a browser that holds a session cookie logs in as the user with the empty id
C16_Witness ==
  /\ ret.op = "http_login" /\ ret.user = "" /\ ret.err = ErrEmptySessionID
  /\ ret.arg # "" /\ EntriesOf(scsStore, ret.arg) # {}

(***************************************************************************)
(* C17: after a successful UserDidAuthenticate the user's pointer is the   *)
(* id of the session that was just committed to the store for that user;   *)
(* after a successful UserDidLogout the user's pointer is empty.           *)
(***************************************************************************)
C17_PointerFollowsLoginAndLogout ==
  /\ (ret.op = "http_login" /\ ret.err = "") =>
        /\ users[ret.user] = ret.key
        /\ \E e \in EntriesOf(scsStore, ret.key) :
              e.userID = ret.user /\ e.seshID = ret.key
  /\ (ret.op = "http_logout" /\ ret.err = "") =>
        users[ret.user] = ""

\* a user who logged in has logged out, and another login had come before
C17_Witness ==
  /\ ret.op = "http_logout" /\ ret.err = "" /\ ret.user = "u"
  /\ users["u"] = "" /\ Len(issued) = 2

(***************************************************************************)
(* C18: the user's pointer is written only after the store write of the    *)
(* same operation succeeded.  A step that changes a pointer is a login or  *)
(* a logout that returned no error and whose Commit is in the store: the   *)
(* new session of that user for a login, the emptied session for a logout. *)
(* When Commit fails no pointer changes, and a pointer that is set always  *)
(* names a session that a login created.                                   *)
(***************************************************************************)
C18_PointerOnlyAfterStoreWrite ==
  [][/\ \A u \in UserIDs :
          users'[u] # users[u] =>
            /\ ret'.err = "" /\ ret'.user = u
            /\ users'[u] # "" =>
                  /\ ret'.op = "http_login" /\ users'[u] = ret'.key
                  /\ \E e \in EntriesOf(scsStore', ret'.key) : e.userID = u
            /\ users'[u] = "" =>
                  /\ ret'.op = "http_logout"
                  /\ \E e \in EntriesOf(scsStore', ret'.key) :
                        e.userID = "" /\ e.seshID = ""
     /\ ret'.failed = "Commit" => users' = users
     /\ \A u \in UserIDs :
          users'[u] # "" => \E i \in 1..Len(issued') : issued'[i] = <<users'[u], u>>]_vars

\* Commit failed during the login of a user whose pointer names an earlier
\* session; the pointer still names it
C18_Witness ==
  /\ ret.op = "http_login" /\ ret.failed = "Commit" /\ ret.err = CommitError
  /\ users[ret.user] # "" /\ users[ret.user] # ret.key

(***************************************************************************)
(* C19: when UpdateUser fails after the store write succeeded, the call    *)
(* returns an error that wraps the delegate's error and logs neither the   *)
(* session-created nor the session-destroyed event.  Nothing is rolled     *)
(* back: the store holds the new state (the new session of the user, or    *)
(* the emptied session; the request's session and the session the login    *)
(* displaced, if still live, are deleted) and the pointer keeps the value  *)
(* it had.                                                                 *)
(***************************************************************************)
C19_UpdateUserFailureLeavesStoreAhead ==
  [][(ret'.op \in {"http_login", "http_logout"} /\ ret'.failed = "UpdateUser") =>
        /\ ret'.err = Wrap(IF ret'.op = "http_login"
                            THEN "Error in user update delegate"
                            ELSE "Failed to reset logged out user's session ID",
                           ErrDelegate)
        /\ ret'.status = 500
        /\ ~ Logged(ret'.events, sessionCreatedMessage)
        /\ ~ Logged(ret'.events, sessionDeletedMessage)
        /\ users' = users
        /\ \E e \in EntriesOf(scsStore', ret'.key) :
              e.userID = (IF ret'.op = "http_login" THEN ret'.user ELSE "")
        /\ ~ deleteFails =>
              /\ StoreFind(scsStore, ret'.arg, now) => EntriesOf(scsStore', ret'.arg) = {}
              /\ (ret'.op = "http_login" /\ StoreFind(scsStore, users[ret'.user], now)) =>
                    EntriesOf(scsStore', users[ret'.user]) = {}]_vars

\* UpdateUser failed during a logout: the logged-out session is gone from
\* the store and the user's pointer still names it
C19_Witness ==
  /\ ret.op = "http_logout" /\ ret.failed = "UpdateUser" /\ ret.err = LogoutUpdateError
  /\ ret.user # "" /\ users[ret.user] = ret.arg
  /\ EntriesOf(scsStore, ret.arg) = {}

(***************************************************************************)
(* C20: a successful Service login logs exactly one session-created line;  *)
(* when the session it fetched for the account is still valid it logs      *)
(* exactly one concurrent-login line, naming that session's hash, and when *)
(* it fetched none it logs no such line.  Hence two consecutive successful *)
(* logins for one account, the second while the first session is still     *)
(* valid, log in total two session-created lines and one concurrent-login  *)
(* line.                                                                   *)
(***************************************************************************)
C20_ConcurrentLoginLoggedOnce ==
  /\ LoginReturned => Count(ret.events, SessionCreated) = 1
  /\ (LoginReturned /\ ret.prev = NoSession) =>
        Count(ret.events, SessionConcurrentLogin) = 0
  /\ (LoginReturned /\ ret.prev # NoSession /\ ret.prev.ExpirationDate > now) =>
        /\ Count(ret.events, SessionConcurrentLogin) = 1
        /\ \E i \in 1..Len(ret.events) :
              /\ ret.events[i].msg = SessionConcurrentLogin
              /\ ret.events[i].fields =
                   {<<"prev_session_hash", hashSessionKey(ret.prev.SessionKey)>>}
  /\ (/\ LoginReturned /\ nextKey = 3 /\ Len(issued) = 2
      /\ issued[1][2] = issued[2][2]
      /\ ret.prev # NoSession /\ ret.prev.SessionKey = issued[1][1]
      /\ ret.prev.ExpirationDate > now) =>
        /\ logCount[SessionCreated] = 2
        /\ logCount[SessionConcurrentLogin] = 1

\* the second of two logins of one account returned while the session of
\* the first, which it displaced, would still be valid
C20_Witness ==
  /\ LoginReturned /\ nextKey = 3 /\ Len(issued) = 2
  /\ issued[1][2] = issued[2][2]
  /\ ret.prev # NoSession /\ ret.prev.SessionKey = issued[1][1]
  /\ ret.prev.ExpirationDate > now
  /\ Count(ret.events, SessionConcurrentLogin) = 1

(***************************************************************************)
(* C21: a login that finds the account's previous session expired (a       *)
(* session is valid iff now < expirationDate) logs the previous-session-   *)
(* expired line and no concurrent-login line, and it returns a key; the    *)
(* concurrent-login line is logged only for a previous session that is     *)
(* still valid when it is found.                                           *)
(***************************************************************************)
C21_ExpiredPreviousSessionNotConcurrent ==
  /\ [][\A p \in Procs :
          (pc[p] = "idle" /\ pc'[p] = "auth_delete") =>
            LET s == extantSession'[p]
            IN  /\ s.ExpirationDate <= now =>
                      /\ Logged(events'[p], PreviousSessionExpiredMsg(s.ExpirationDate))
                      /\ ~ Logged(events'[p], SessionConcurrentLogin)
                /\ Logged(events'[p], SessionConcurrentLogin) => s.ExpirationDate > now]_vars
  /\ []((ret.op = "auth" /\ Logged(ret.events, PreviousSessionExpiredMsg(ret.prev.ExpirationDate)))
           => ret.err = "" /\ ret.key # "")

(***************************************************************************)
(* C22: in UserSessions, a successful login of a user whose pointer is     *)
(* empty logs the session-created line only, and a successful logout       *)
(* leaves the pointer empty; so in the sequence login, successful logout,  *)
(* login of one user the second login logs neither the concurrent-login    *)
(* nor the previous-session-expired line.                                  *)
(***************************************************************************)
C22_LoginAfterLogoutLogsNoDisplacement ==
  [][/\ (ret'.op = "http_logout" /\ ret'.err = "") => users'[ret'.user] = ""
     /\ (ret'.op = "http_login" /\ ret'.err = "" /\ users[ret'.user] = "") =>
           ret'.events = <<SeshEvent(sessionCreatedMessage, ret'.key)>>
     /\ (/\ ret.op = "http_logout" /\ ret.err = ""
         /\ ret'.op = "http_login" /\ ret'.err = "" /\ ret'.user = ret.user) =>
           /\ ~ Logged(ret'.events, concurrentLoginMessage)
           /\ ~ Logged(ret'.events, expiredLoginMessage)]_vars

\* the second login of a user whose first session was logged out
C22_Witness ==
  /\ ret.op = "http_login" /\ ret.err = "" /\ ret.user = "u"
  /\ Len(issued) = 2 /\ issued[1] = <<"t1", "u">> /\ "t1" \in loggedOut
  /\ ret.events = <<SeshEvent(sessionCreatedMessage, ret.key)>>

(***************************************************************************)
(* C23: no log line of UserDidAuthenticate, GetSessionIfValid (behind the  *)
(* middleware) or UserDidLogout has a message or a field value equal to a  *)
(* raw session key, of a session past or present or as presented by a      *)
(* client; a field named for a hash holds the hash of such a key, or of    *)
(* the empty id of a session that never got one.                           *)
(***************************************************************************)
RawKeys ==
  {generateSessionKey(n) : n \in 1..(nextKey - 1)} \cup {generateToken(n) : n \in 1..(nextToken - 1)}
    \cup {BogusKey}
HashFieldNames == {"session_hash", "prev_session_hash", "session_id_hash"}
HidesKeys(e) ==
  /\ e.msg \notin RawKeys
  /\ \A f \in e.fields :
       /\ f[2] \notin RawKeys
       /\ f[1] \in HashFieldNames => \E k \in RawKeys \cup {""} : f[2] = hashSessionKey(k)
AllHideKeys(evs) == \A i \in 1..Len(evs) : HidesKeys(evs[i])

C23_NoRawKeyLogged ==
  /\ AllHideKeys(ret.events)
  /\ \A p \in Procs : AllHideKeys(events[p])

\* a login that displaced a valid session has logged the hashes of both keys
C23_Witness ==
  /\ LoginReturned /\ ret.prev # NoSession /\ Len(ret.events) = 2
  /\ ret.events[1].fields = {<<"prev_session_hash", hashSessionKey(ret.prev.SessionKey)>>}
  /\ ret.events[2].fields = {<<"session_hash", hashSessionKey(ret.key)>>}

(***************************************************************************)
(* C24: every lifecycle line that a returned call has logged (session      *)
(* created, destroyed, expired, not found, concurrent login, previous      *)
(* session expired, and the middleware's rejection lines) has a field      *)
(* holding the hash of the session key it is about: the new key or the     *)
(* displaced key for a login, the presented key for a validation or a      *)
(* logout.                                                                 *)
(***************************************************************************)
CarriesHashOf(e, keys) ==
  \E f \in e.fields : f[1] \in HashFieldNames /\ \E k \in keys : f[2] = hashSessionKey(k)

C24_EveryEventCarriesKeyHash ==
  \A i \in 1..Len(ret.events) :
    LET e == ret.events[i]
    IN  /\ (ret.op = "auth" /\ e.msg # DeleteFailedWarning) =>
              CarriesHashOf(e, IF e.msg = SessionCreated THEN {ret.key}
                               ELSE {ret.prev.SessionKey})
        /\ ret.op \in {"get", "logout"} => CarriesHashOf(e, {ret.arg})

(***************************************************************************)
(* C25: a returned call has logged exactly one line per lifecycle          *)
(* transition: one session-created line for a successful login, one        *)
(* displacement line (concurrent login or previous session expired) for a  *)
(* login that found a previous session, one session-destroyed line for a   *)
(* successful logout, and exactly one session-expired or session-not-found *)
(* line for a request that the middleware rejected after                   *)
(* GetSessionIfValid.                                                      *)
(***************************************************************************)
C25_OneEventPerTransition ==
  /\ LoginReturned =>
        /\ Count(ret.events, SessionCreated) = 1
        /\ ret.prev # NoSession =>
              Count(ret.events, SessionConcurrentLogin)
                + Count(ret.events, PreviousSessionExpiredMsg(ret.prev.ExpirationDate)) = 1
  /\ (ret.op = "logout" /\ ret.err = "") => Count(ret.events, SessionDestroyed) = 1
  /\ (ret.op = "get" /\ ret.status = 401) =>
        Count(ret.events, SessionExpired) + Count(ret.events, SessionDoesNotExist) = 1

C27_CreateSessionConstraints ==
  [][ret'.op = "create" =>
       IF RowsByAccount(sessions, ret'.arg) # {} \/ RowsByKey(sessions, ret'.key) # {}
       THEN ret'.err # "" /\ sessions' = sessions
       ELSE /\ ret'.err = ""
            /\ sessions' = sessions \cup {Session(ret'.arg, ret'.key, now + ret'.before)}]_vars

\* the key of an expired row of another account was handed to CreateSession
C27_Witness ==
  /\ ret.op = "create" /\ ret.err = ErrCreateFailed
  /\ RowsByAccount(sessions, ret.arg) = {}
  /\ \E r \in RowsByKey(sessions, ret.key) : r.ExpirationDate <= now

(***************************************************************************)
(* C28: the cookie set after a successful login has the session cookie's   *)
(* name, the returned key as its value, HttpOnly, path "/", and neither    *)
(* MaxAge nor Expires; the cookie set after a successful logout has the    *)
(* same name, an empty value and MaxAge -1; a failed login or logout sets  *)
(* no cookie.                                                              *)
(***************************************************************************)
C28_SessionCookieAttributes ==
  /\ LoginReturned =>
        /\ ret.setCookie.Name = SessionCookieName
        /\ ret.setCookie.Value = ret.key
        /\ ret.setCookie.HttpOnly
        /\ ret.setCookie.Path = "/"
        /\ ret.setCookie.MaxAge = 0 /\ ret.setCookie.Expires = 0
  /\ (ret.op = "logout" /\ ret.err = "") =>
        /\ ret.setCookie.Name = SessionCookieName
        /\ ret.setCookie.Value = ""
        /\ ret.setCookie.MaxAge = -1
  /\ (ret.op \in {"auth", "logout"} /\ ret.err # "") => ret.setCookie = ZeroCookie

\* the session of a login was logged out and its cookie was deleted
C28_Witness ==
  /\ ret.op = "logout" /\ ret.err = "" /\ ret.arg \in IssuedKeys
  /\ ret.setCookie = DeleteSessionCookie

(***************************************************************************)
(* C29: a login writes the new session to the store only after the         *)
(* previous session of the same account or user has been inspected and     *)
(* displaced, so that the store never holds two sessions of one account    *)
(* (Service) or of one user (UserSessions) at the same time.               *)
(***************************************************************************)
SessionsOfUser(u) == {e \in scsStore : e.userID = u}

C29_NeverOldAndNewSessionTogether ==
  /\ \A a \in Accounts : Cardinality(RowsByAccount(sessions, a)) <= 1
  /\ \A u \in UserIDs \ {""} : Cardinality(SessionsOfUser(u)) <= 1

(***************************************************************************)
(* C30 as stated: in every reachable state, whatever failed or abandoned   *)
(* logins have left behind, a UserDidAuthenticate for any account that     *)
(* runs to its end without store faults and without interference returns   *)
(* a key, and the account then has a valid session with that key.          *)
(***************************************************************************)
NextLogin(a) ==
  UserDidAuthenticateUninterrupted(sessions, a, generateSessionKey(nextKey), timeout, now)

C30_NextLoginYieldsValidSession ==
  impl = "Service" =>
    \A a \in Accounts :
      /\ NextLogin(a).err = "" /\ NextLogin(a).key # ""
      /\ \E r \in RowsByAccount(NextLogin(a).rows, a) :
            r.SessionKey = NextLogin(a).key /\ r.ExpirationDate > now

(***************************************************************************)
(* C30 amended: in every reachable state, whatever failed or abandoned     *)
(* logins have left behind, a UserDidAuthenticate for any account that     *)
(* runs to its end without store faults and without interference returns   *)
(* a key; the account then has exactly one row, with that key, which       *)
(* expires the configured timeout from now and so is a valid session       *)
(* exactly when the timeout is positive; rows of other accounts are        *)
(* untouched.                                                              *)
(***************************************************************************)
C30_NoPermanentLockout ==
  impl = "Service" =>
    \A a \in Accounts :
      /\ NextLogin(a).err = "" /\ NextLogin(a).key = generateSessionKey(nextKey)
      /\ RowsByAccount(NextLogin(a).rows, a) =
            {Session(a, NextLogin(a).key, now + timeout)}
      /\ \A b \in Accounts \ {a} :
            RowsByAccount(NextLogin(a).rows, b) = RowsByAccount(sessions, b)

\* a login returned a key while an earlier login of the same account, which
\* had found the same table, sits abandoned before its CreateSession
C30_Witness ==
  /\ LoginReturned /\ ret.key = "k2"
  /\ \E p \in Procs : pc[p] = "auth_create" /\ acct[p] = ret.arg /\ sessionKey[p] = "k1"
  /\ RowsByAccount(sessions, ret.arg) = {Session(ret.arg, "k2", now + timeout)}
  /\ NextLogin(ret.arg).err = ""

(***************************************************************************)
(* C31: with a positive timeout, a GetSessionIfValid(K) made less than the *)
(* timeout after K was issued or last validated succeeds, as long as K was *)
(* not logged out and no later login of its account has displaced it; so a *)
(* session validated at intervals shorter than the timeout never expires.  *)
(* A validation a full timeout or more after the last one is rejected.     *)
(***************************************************************************)
\* a logout or a new login of K's account has come between
Disturbed(k) ==
  \/ k \in loggedOut
  \/ Superseded(k)
  \/ \E p \in Procs : pc[p] = "auth_create" /\ extantSession[p].SessionKey = k

C31_ValidatedInTimeNeverExpires ==
  [][\A p \in Procs : \A k \in IssuedKeys :
       (pc[p] = "idle" /\ pc'[p] = "get_exists" /\ sessionKey'[p] = k) =>
         /\ ~ (timeout > 0 /\ now - lastSeen[k] < timeout /\ ~ Disturbed(k))
         /\ ~ Disturbed(k) => now - lastSeen[k] >= timeout]_vars

\* a validation succeeds at the instant the session would have expired had
\* the validation before it not moved its expirationDate
C31_Witness ==
  /\ ret.op = "get" /\ ret.err = "" /\ timeout = 2 /\ now = 2
  /\ ret.before = 3 /\ lastSeen[ret.arg] = 2 /\ ~ Disturbed(ret.arg)

(***************************************************************************)
(* C32: once GetSessionIfValid(K) has answered ErrSessionExpired or        *)
(* ErrValidSessionNotFound for an issued key K, no later GetSessionIfValid *)
(* of K succeeds: K's row is from then on absent or expired, and no step   *)
(* changes an expired row other than by deleting it.                       *)
(***************************************************************************)
C32_ExpiryIsIrreversible ==
  /\ []((ret.op = "get" /\ ret.err = "") => ret.arg \notin rejected)
  /\ [](\A k \in rejected : \A r \in RowsByKey(sessions, k) : r.ExpirationDate <= now)
  /\ [][\A r \in sessions : r.ExpirationDate <= now =>
          \A r2 \in sessions' : r2.SessionKey = r.SessionKey => r2 = r]_vars

\* the UPDATE of a further validation misses the expired row of a key that
\* was rejected before, although the timeout is positive
C32_Witness ==
  \E p \in Procs :
    /\ pc[p] = "get_exists" /\ sessionKey[p] \in rejected \cap IssuedKeys
    /\ timeout > 0
    /\ \E r \in RowsByKey(sessions, sessionKey[p]) : r.ExpirationDate <= now

(***************************************************************************)
(* C33: every operation draws the line at "valid iff now < expirationDate":*)
(* a session whose expirationDate equals the current time is rejected as   *)
(* expired by GetSessionIfValid, and a login that finds it logs the        *)
(* previous-session-expired line and not the concurrent-login line.        *)
(***************************************************************************)
C33_BoundaryAgreedByAllOperations ==
  /\ []((ret.op = "get" /\ \E r \in RowsByKey(sessions, ret.arg) : r.ExpirationDate = now)
          => ret.err = ErrSessionExpired)
  /\ [][\A p \in Procs :
          (/\ pc[p] = "idle" /\ pc'[p] = "auth_delete"
           /\ extantSession'[p].ExpirationDate = now) =>
            /\ Logged(events'[p], PreviousSessionExpiredMsg(now))
            /\ ~ Logged(events'[p], SessionConcurrentLogin)]_vars

C35_CreateFailureEndsLogin ==
  [][\A p \in Procs :
       (pc[p] = "auth_create" /\ pc'[p] # "auth_create") =>
         /\ ret'.op = "auth" /\ ret'.arg = acct[p] /\ pc'[p] = "idle"
         /\ RowsByKey(sessions', sessionKey[p]) = {} <=> ret'.err # ""
         /\ ret'.err # "" =>
              /\ ret'.err \in {ErrCreateFailed, ErrInsertFailed}
              /\ ret'.key = ""
              /\ ~ Logged(ret'.events, SessionCreated)
              /\ ret'.events = events[p]
              /\ issued' = issued
              /\ sessions' = sessions
              /\ (extantSession[p] # NoSession /\ ~ Logged(events[p], DeleteFailedWarning))
                    => extantSession[p] \notin sessions'
              /\ ret'.err = ErrCreateFailed => RowsByAccount(sessions', acct[p]) # {}]_vars

\* the login deleted the previous session, its INSERT failed, and the
\* account is left without a row
C35_Witness ==
  /\ ret.op = "auth" /\ ret.err = ErrInsertFailed /\ ret.key = ""
  /\ ret.prev # NoSession /\ ~ Logged(ret.events, DeleteFailedWarning)
  /\ RowsByAccount(sessions, ret.arg) = {}

(***************************************************************************)
(* C36: when FetchPossiblyExpiredSession fails with an error other than    *)
(* sql.ErrNoRows, UserDidAuthenticate returns that error at once, without  *)
(* a key: it runs neither DeleteSession nor CreateSession, logs nothing,   *)
(* leaves the store as it was and does not try again.  sql.ErrNoRows is    *)
(* never returned: the login goes on to CreateSession as it does for an    *)
(* account without a previous session.                                     *)
(***************************************************************************)
C36_FetchErrorEndsLogin ==
  /\ [][/\ (ret'.op = "auth" /\ pc' = pc) =>
             /\ ret'.err = ErrFetchFailed /\ ret'.key = ""
             /\ ret'.events = <<>>
             /\ sessions' = sessions /\ issued' = issued /\ events' = events
        /\ \A p \in Procs :
             (pc[p] = "idle" /\ pc'[p] = "auth_create") =>
               /\ RowsByAccount(sessions, acct'[p]) = {}
               /\ ret' = NoRet /\ events'[p] = <<>> /\ sessions' = sessions]_vars
  /\ [](ret.op = "auth" => ret.err # ErrNoRows)
  /\ []((ret.op = "auth" /\ ret.err = ErrFetchFailed) =>
          ret.key = "" /\ ret.events = <<>> /\ ret.prev = NoSession)

\* the fetch failed for an account that has a session: the session is
\* still there, nothing was deleted and nothing created
C36_Witness ==
  /\ ret.op = "auth" /\ ret.err = ErrFetchFailed /\ ret.events = <<>>
  /\ \E r \in RowsByAccount(sessions, ret.arg) : r.SessionKey \in IssuedKeys

(***************************************************************************)
(* C37 as stated: in UserSessions.UserDidAuthenticate an error of Store.Find or      *)
(* Store.Delete on the user's previous session ends the login with an      *)
(* error after the new session was committed: the new session is in the    *)
(* store, UpdateUser is not called and the pointer still names the         *)
(* previous session, no session-created line is logged, and a request      *)
(* presenting the new session's token is rejected by ProtectedMiddleware   *)
(* with ErrNotCurrentSession.                                              *)
(***************************************************************************)
C37_StoreErrorAfterCommitAbortsLogin ==
  [][(ret'.op = "http_login" /\ ret'.failed \in {"Find", "Delete"}) =>
       LET u == ret'.user
           tok == ret'.key
       IN  /\ ret'.err = (IF ret'.failed = "Find" THEN FindError ELSE DeleteError)
           /\ ret'.status = 500
           /\ users' = users /\ users[u] # "" /\ users[u] # tok
           /\ ~ Logged(ret'.events, sessionCreatedMessage)
           /\ EntriesOf(scsStore', tok) # {}
           /\ \A e \in EntriesOf(scsStore', tok) : e.userID = u
           /\ ProtectedMiddleware(scsStore', users', tok, now') = ErrNotCurrentSession]_vars

(***************************************************************************)
(* C37 amended: in UserSessions.UserDidAuthenticate an error of Store.Find *)
(* or Store.Delete on the user's previous session ends the login with an   *)
(* error after the new session was committed: the new session is in the    *)
(* store, UpdateUser is not called and the pointer still names the         *)
(* previous session, and no session-created line is logged.  When the      *)
(* commit that LoadAndSave makes after the handler succeeds, the browser   *)
(* gets the new token, and a request presenting it is rejected by          *)
(* ProtectedMiddleware with ErrNotCurrentSession.  When that commit fails  *)
(* too, no browser gets the new token, and the stored session keeps the    *)
(* session id its values had before the login, which the middleware        *)
(* compares with the pointer.                                              *)
(***************************************************************************)
C37_StoreErrorAbortsLoginPointerKept ==
  [][(ret'.op = "http_login" /\ ret'.failed \in {"Find", "Delete"}) =>
       LET u == ret'.user
           tok == ret'.key
           before == Load(scsStore, ret'.arg, now).values.seshID
       IN  /\ ret'.err = (IF ret'.failed = "Find" THEN FindError ELSE DeleteError)
           /\ ret'.status = 500
           /\ users' = users /\ users[u] # "" /\ users[u] # tok
           /\ ~ Logged(ret'.events, sessionCreatedMessage)
           /\ EntriesOf(scsStore', tok) # {}
           /\ \A e \in EntriesOf(scsStore', tok) : e.userID = u
           /\ IF \E b \in Browsers : cookie'[b] = tok
              THEN /\ \A e \in EntriesOf(scsStore', tok) : e.seshID = tok
                   /\ ProtectedMiddleware(scsStore', users', tok, now') = ErrNotCurrentSession
              ELSE /\ cookie' = cookie
                   /\ \A e \in EntriesOf(scsStore', tok) : e.seshID = before
                   /\ ProtectedMiddleware(scsStore', users', tok, now') =
                        (IF users[u] = before THEN "" ELSE ErrNotCurrentSession)]_vars

\* Store.Delete failed: the previous session is still in the store and still
\* the current one, the browser holds the new token and is turned away
C37_Witness ==
  /\ ret.op = "http_login" /\ ret.failed = "Delete" /\ ret.err = DeleteError
  /\ \E b \in Browsers : cookie[b] = ret.key
  /\ StoreFind(scsStore, users[ret.user], now)
  /\ ProtectedMiddleware(scsStore, users, users[ret.user], now) = ""
  /\ ProtectedMiddleware(scsStore, users, ret.key, now) = ErrNotCurrentSession

(***************************************************************************)
(* C38: UserDidLogout on a context without the user that                   *)
(* ProtectedMiddleware puts there returns an error after it has renewed    *)
(* the token and committed the session without user id and session id: it  *)
(* does not call UpdateUser and logs no session-destroyed line, so the      *)
(* pointer of the user who was logged in still names the session that has  *)
(* ended (whose token the store no longer finds, unless its Delete does    *)
(* nothing).                                                               *)
(***************************************************************************)
C38_LogoutWithoutUserKeepsPointer ==
  [][ret'.op = "logout_direct" =>
       LET old == ret'.arg
           u == ret'.user
       IN  /\ ret'.err = ErrNoUserInContext
           /\ users' = users
           /\ ret'.events = <<>>
           /\ \A e \in EntriesOf(scsStore', ret'.key) : e.userID = "" /\ e.seshID = ""
           /\ EntriesOf(scsStore', ret'.key) # {}
           /\ Load(scsStore', ret'.key, now').values = NoValues
           /\ (old # "" /\ ~ deleteFails) => ~ StoreFind(scsStore', old, now')
           /\ (u # "" /\ users[u] = ret'.prev.SessionKey) =>
                 users'[u] = ret'.prev.SessionKey]_vars

\* the current session of user u was ended this way: the store no longer
\* finds it and the pointer still names it
C38_Witness ==
  /\ ret.op = "logout_direct" /\ ret.user = "u"
  /\ users["u"] = ret.arg /\ ret.prev.SessionKey = ret.arg
  /\ ~ StoreFind(scsStore, ret.arg, now)
  /\ ProtectedMiddleware(scsStore, users, ret.key, now) = ErrNoSession

(***************************************************************************)
(* C39: a GetSessionIfValid that fails (ErrSessionExpired,                 *)
(* ErrValidSessionNotFound or an unexpected store error) changes nothing   *)
(* in the store, in neither of its two statements: the expired row is not  *)
(* deleted and no expirationDate is altered.  An expired row leaves the    *)
(* store only through the DeleteSession of a UserDidAuthenticate for its   *)
(* account or of a UserDidLogout for its key.                              *)
(***************************************************************************)
C39_FailedValidationLeavesStore ==
  [][/\ ((ret'.op = "get" /\ ret'.err # "")
          \/ \E p \in Procs : pc[p] = "idle" /\ pc'[p] = "get_exists") =>
            sessions' = sessions
     /\ \A r \in sessions :
          (r.ExpirationDate <= now /\ r \notin sessions') =>
            /\ RowsByKey(sessions', r.SessionKey) = {}
            /\ \/ ret'.op = "logout" /\ ret'.arg = r.SessionKey /\ ret'.err = ""
               \/ \E p \in Procs :
                    /\ pc[p] = "auth_delete" /\ pc'[p] = "auth_create"
                    /\ acct[p] = r.AccountID /\ extantSession[p].SessionKey = r.SessionKey]_vars

\* the validation was answered ErrSessionExpired and the expired row is
\* still in the store, with the expirationDate it had
C39_Witness ==
  /\ ret.op = "get" /\ ret.err = ErrSessionExpired /\ timeout = 2 /\ now = 2
  /\ Session(IssuedAccount(ret.arg), ret.arg, 2) \in sessions

(***************************************************************************)
(* C40: no operation touches another account's session.  Every statement   *)
(* of a UserDidAuthenticate(a) leaves the rows of the accounts other than  *)
(* a as they were; GetSessionIfValid(K) and UserDidLogout(K) leave the     *)
(* rows with a key other than K as they were; this holds whether the call  *)
(* succeeds or fails.                                                      *)
(***************************************************************************)
RowsOfOtherAccounts(rows, a) == {r \in rows : r.AccountID # a}
RowsOfOtherKeys(rows, k) == {r \in rows : r.SessionKey # k}

C40_OtherAccountsUntouched ==
  [][/\ \A p \in Procs :
          /\ (pc[p] \in {"auth_delete", "auth_create"} /\ pc'[p] # pc[p]) =>
                RowsOfOtherAccounts(sessions', acct[p]) = RowsOfOtherAccounts(sessions, acct[p])
          /\ (pc[p] = "idle" /\ pc'[p] \in {"auth_delete", "auth_create"}) =>
                sessions' = sessions
          /\ (pc[p] = "idle" /\ pc'[p] = "get_exists") =>
                RowsOfOtherKeys(sessions', sessionKey'[p]) = RowsOfOtherKeys(sessions, sessionKey'[p])
          /\ (pc[p] = "get_exists" /\ pc'[p] = "idle") =>
                RowsOfOtherKeys(sessions', sessionKey[p]) = RowsOfOtherKeys(sessions, sessionKey[p])
     /\ (ret'.op = "auth" /\ pc' = pc) => sessions' = sessions
     /\ ret'.op \in {"get", "logout"} =>
          RowsOfOtherKeys(sessions', ret'.arg) = RowsOfOtherKeys(sessions, ret'.arg)]_vars

\* a login has returned a key while another account has a session, which
\* was issued earlier and is untouched
C40_Witness ==
  /\ LoginReturned /\ ret.key = "k2"
  /\ \E r \in sessions :
        /\ r.AccountID # ret.arg /\ r.SessionKey = "k1"
        /\ r.ExpirationDate = lastSeen["k1"] + timeout

====
